---- MODULE Spec2Model ----
(***************************************************************************)
(* VirtualBricks: the geometric placement engine (part catalog, grid and   *)
(* snap resolution, collision checking, connection graph) and the LDraw    *)
(* exporter, modelled from the TypeScript sources.                         *)
(*                                                                         *)
(* Units.  Lengths are integers in tenths of a millimetre (8.0 mm stud     *)
(* spacing = 80, the 0.1 mm collision tolerance = 1, the 0.5 mm connection *)
(* tolerance = 5), so every length constant of the code is exact.  Angles  *)
(* are integer degrees (Math.PI / 2 = 90); the 0.01 rad tolerance of       *)
(* isRotated90Degrees admits, among integer degrees, only the exact        *)
(* quarter turn.  Arithmetic is exact: IEEE-754 rounding is not modelled.  *)
(***************************************************************************)
EXTENDS Integers, Sequences, FiniteSets, TLC

VARIABLES
    call,               \* pure-function harness: the call being made (name and arguments)
    ret,                \* pure-function harness: its result ("pending" before the call)
    parts,              \* the part map handed to the ConnectionManager (id -> BrickInstance)
    connections,        \* ConnectionManager.connections: Map in insertion order, as a sequence
    uuidCount,          \* number of uuid() values drawn so far
    pc,                 \* position of the stacking scenario ("idle" outside it)
    bricks,             \* useSceneStore.bricks in the place tool: Map in insertion order
    ghostRotationY,     \* useUIStore.ghostRotationY
    ghostRotationYRef,  \* GhostBrick ghostRotationYRef.current
    meshPosition,       \* GhostBrick meshRef.current.position
    hasCollision,       \* GhostBrick hasCollision state
    definitions,        \* BrickRegistryClass.definitions: Map in insertion order
    registerLog,        \* the definitions handed to register since construction, in call order
    geometryCache,      \* BrickGeometryGenerator.geometryCache: Map in insertion order
    meshCount,          \* number of geometries generated so far
    geometryLog,        \* the getGeometry and clearCache calls made so far, with their results
    sceneConnections,   \* useSceneStore.connections: Map in insertion order
    selectedBrickIds,   \* useSceneStore.selectedBrickIds
    history,            \* useSceneStore.history
    historyIndex,       \* useSceneStore.historyIndex
    projects,           \* the projects object store of IndexedDB, in insertion order
    projectCount,       \* number of project ids generated so far
    renderedBricks,     \* PhysicsBrickScene: the brick map of the last render
    groundedBricks,     \* PhysicsBrickScene: the memoized groundedBricks
    memoConnections     \* the connections of the manager when groundedBricks was computed

harnessVars == <<call, ret>>
cmVars == <<parts, connections, uuidCount, pc>>
placeVars == <<bricks, ghostRotationY, ghostRotationYRef, meshPosition, hasCollision>>
registryVars == <<definitions, registerLog>>
geometryVars == <<geometryCache, meshCount, geometryLog>>
sceneVars == <<sceneConnections, selectedBrickIds, history, historyIndex>>
storageVars == <<projects, projectCount>>
renderVars == <<renderedBricks, groundedBricks, memoConnections>>
storeVars == <<registryVars, geometryVars, sceneVars, storageVars, renderVars>>
notRegistryVars == <<geometryVars, sceneVars, storageVars, renderVars>>
notGeometryVars == <<registryVars, sceneVars, storageVars, renderVars>>
notSceneVars == <<registryVars, geometryVars, storageVars, renderVars>>
notStorageVars == <<registryVars, geometryVars, sceneVars, renderVars>>
notRenderVars == <<registryVars, geometryVars, sceneVars, storageVars>>
vars == <<call, ret, parts, connections, uuidCount, pc,
          bricks, ghostRotationY, ghostRotationYRef, meshPosition, hasCollision,
          storeVars>>

-----------------------------------------------------------------------------
(* Generic helpers *)

Abs(n) == IF n < 0 THEN -n ELSE n

Range(s) == {s[i] : i \in DOMAIN s}

\* JavaScript's % : the result takes the sign of the dividend
JsMod(a, b) == IF a >= 0 THEN a % b ELSE -((-a) % b)

\* Math.round on the quotient n / d (d > 0): nearest integer, ties towards +Infinity
RoundDiv(n, d) == (2 * n + d) \div (2 * d)

-----------------------------------------------------------------------------
(* core/constants: LEGO, in tenths of a millimetre *)

STUD_SPACING == 80
STUD_HEIGHT == 16
PLATE_HEIGHT == 32

\* Math.PI / 2 and 2 * Math.PI, in degrees
QUARTER_TURN == 90
FULL_TURN == 360

\* boxesOverlap's default tolerance (0.1 mm)
BOX_TOLERANCE == 1
\* findConnections' default tolerance and checkAllStudsAlign's tolerance (0.5 mm)
CONNECT_TOLERANCE == 5

Vec(x, y, z) == [x |-> x, y |-> y, z |-> z]

-----------------------------------------------------------------------------
(* core/brick/BrickRegistry *)

\* One row of studs or anti-studs: x fixed by column xi, z running over 0..depth-1
RECURSIVE StudRow(_, _, _, _, _, _)
StudRow(type, xi, zi, width, depth, y) ==
    IF zi >= depth THEN <<>>
    ELSE <<[type |-> type,
            position |-> Vec((2 * xi + 1 - width) * (STUD_SPACING \div 2),
                             y,
                             (2 * zi + 1 - depth) * (STUD_SPACING \div 2))]>>
         \o StudRow(type, xi, zi + 1, width, depth, y)

\* for x in 0..width-1, for z in 0..depth-1: push a point
RECURSIVE StudGrid(_, _, _, _, _)
StudGrid(type, xi, width, depth, y) ==
    IF xi >= width THEN <<>>
    ELSE StudRow(type, xi, 0, width, depth, y) \o StudGrid(type, xi + 1, width, depth, y)

\* the plausible slip: the loop over the bottom anti-studs is left out
generateStudConnections_StudsOnly(width, depth, height) ==
    StudGrid("stud", 0, width, depth, height * PLATE_HEIGHT)

generateStudConnections(width, depth, height) ==
    StudGrid("stud", 0, width, depth, height * PLATE_HEIGHT)
    \o StudGrid("anti_stud", 0, width, depth, 0)

\* direction 'front': one stud per column on the row z = 0, then full anti-stud coverage
RECURSIVE SlopeStuds(_, _, _, _)
SlopeStuds(xi, width, depth, y) ==
    IF xi >= width THEN <<>>
    ELSE <<[type |-> "stud",
            position |-> Vec((2 * xi + 1 - width) * (STUD_SPACING \div 2),
                             y,
                             (1 - depth) * (STUD_SPACING \div 2))]>>
         \o SlopeStuds(xi + 1, width, depth, y)

generateSlopeConnections(width, depth, height) ==
    SlopeStuds(0, width, depth, height * PLATE_HEIGHT)
    \o StudGrid("anti_stud", 0, width, depth, 0)

\* generateRoundConnections and generateConeConnections are the same two points
generateRoundConnections(height) ==
    << [type |-> "stud", position |-> Vec(0, height * PLATE_HEIGHT, 0)],
       [type |-> "anti_stud", position |-> Vec(0, 0, 0)] >>

createBasicBrick(id, ldrawId, width, depth, heightInPlates) ==
    [id |-> id, ldrawId |-> ldrawId, category |-> "basic", shape |-> "box",
     dimensions |-> [width |-> width, depth |-> depth, height |-> heightInPlates],
     connectionPoints |-> generateStudConnections(width, depth, heightInPlates)]

createSlopeBrick(id, ldrawId, width, depth, heightInPlates) ==
    [id |-> id, ldrawId |-> ldrawId, category |-> "slope", shape |-> "slope",
     dimensions |-> [width |-> width, depth |-> depth, height |-> heightInPlates],
     connectionPoints |-> generateSlopeConnections(width, depth, heightInPlates)]

createRoundBrick(id, ldrawId, width, heightInPlates) ==
    [id |-> id, ldrawId |-> ldrawId, category |-> "round", shape |-> "round",
     dimensions |-> [width |-> width, depth |-> width, height |-> heightInPlates],
     connectionPoints |-> generateRoundConnections(heightInPlates)]

createConeBrick(id, ldrawId, width, heightInPlates) ==
    [id |-> id, ldrawId |-> ldrawId, category |-> "round", shape |-> "cone",
     dimensions |-> [width |-> width, depth |-> width, height |-> heightInPlates],
     connectionPoints |-> generateRoundConnections(heightInPlates)]

\* registerDefaultBricks: the register calls in order, each as the tuple
\* <<create function, id, ldrawId, width, depth, heightInPlates>>; for round and cone
\* bricks the depth is the width
registerDefaultBricks ==
    << <<"basic", "brick_1x1", "3005.dat", 1, 1, 3>>,
       <<"basic", "brick_1x2", "3004.dat", 2, 1, 3>>,
       <<"basic", "brick_1x3", "3622.dat", 3, 1, 3>>,
       <<"basic", "brick_1x4", "3010.dat", 4, 1, 3>>,
       <<"basic", "brick_1x6", "3009.dat", 6, 1, 3>>,
       <<"basic", "brick_1x8", "3008.dat", 8, 1, 3>>,
       <<"basic", "brick_2x2", "3003.dat", 2, 2, 3>>,
       <<"basic", "brick_2x3", "3002.dat", 3, 2, 3>>,
       <<"basic", "brick_2x4", "3001.dat", 4, 2, 3>>,
       <<"basic", "brick_2x6", "2456.dat", 6, 2, 3>>,
       <<"basic", "brick_2x8", "3007.dat", 8, 2, 3>>,
       <<"basic", "plate_1x1", "3024.dat", 1, 1, 1>>,
       <<"basic", "plate_1x2", "3023.dat", 2, 1, 1>>,
       <<"basic", "plate_1x3", "3623.dat", 3, 1, 1>>,
       <<"basic", "plate_1x4", "3710.dat", 4, 1, 1>>,
       <<"basic", "plate_1x6", "3666.dat", 6, 1, 1>>,
       <<"basic", "plate_1x8", "3460.dat", 8, 1, 1>>,
       <<"basic", "plate_2x2", "3022.dat", 2, 2, 1>>,
       <<"basic", "plate_2x3", "3021.dat", 3, 2, 1>>,
       <<"basic", "plate_2x4", "3020.dat", 4, 2, 1>>,
       <<"basic", "plate_2x6", "3795.dat", 6, 2, 1>>,
       <<"basic", "plate_2x8", "3034.dat", 8, 2, 1>>,
       <<"basic", "plate_4x4", "3031.dat", 4, 4, 1>>,
       <<"basic", "plate_4x6", "3032.dat", 6, 4, 1>>,
       <<"basic", "plate_4x8", "3035.dat", 8, 4, 1>>,
       <<"basic", "plate_6x6", "3958.dat", 6, 6, 1>>,
       <<"basic", "plate_8x8", "41539.dat", 8, 8, 1>>,
       <<"slope", "slope_45_1x2", "3040.dat", 1, 2, 3>>,
       <<"slope", "slope_45_2x2", "3039.dat", 2, 2, 3>>,
       <<"slope", "slope_45_1x3", "4286.dat", 1, 3, 3>>,
       <<"slope", "slope_45_2x3", "3038.dat", 2, 3, 3>>,
       <<"slope", "slope_45_2x4", "3037.dat", 2, 4, 3>>,
       <<"slope", "slope_33_1x3", "4286.dat", 1, 3, 2>>,
       <<"slope", "slope_33_2x3", "3298.dat", 2, 3, 2>>,
       <<"slope", "slope_33_3x3", "3675.dat", 3, 3, 2>>,
       <<"slope", "slope_65_1x2", "60481.dat", 1, 2, 3>>,
       <<"slope", "slope_65_2x2", "60481.dat", 2, 2, 3>>,
       <<"round", "brick_round_1x1", "3062b.dat", 1, 1, 3>>,
       <<"round", "brick_round_2x2", "3941.dat", 2, 2, 3>>,
       <<"round", "plate_round_1x1", "6141.dat", 1, 1, 1>>,
       <<"round", "plate_round_2x2", "4032.dat", 2, 2, 1>>,
       <<"cone", "cone_1x1", "4589.dat", 1, 1, 3>>,
       <<"cone", "cone_2x2", "3942c.dat", 2, 2, 6>> >>

\* the keys of the registry's Map after construction
CatalogIds == {registerDefaultBricks[i][2] : i \in DOMAIN registerDefaultBricks}

\* BrickRegistry.get(id) !== undefined
Known(id) == id \in CatalogIds

\* the definition a register call builds
Create(r) ==
    CASE r[1] = "basic" -> createBasicBrick(r[2], r[3], r[4], r[5], r[6])
      [] r[1] = "slope" -> createSlopeBrick(r[2], r[3], r[4], r[5], r[6])
      [] r[1] = "round" -> createRoundBrick(r[2], r[3], r[4], r[6])
      [] r[1] = "cone" -> createConeBrick(r[2], r[3], r[4], r[6])

\* Map.set keeps the last registration of an id
LastRegistered(rows, id) ==
    rows[CHOOSE i \in DOMAIN rows :
            /\ rows[i][2] = id
            /\ \A j \in DOMAIN rows : rows[j][2] = id => j <= i]

\* BrickRegistry.get(id), for a known id
RegistryGet(id) == Create(LastRegistered(registerDefaultBricks, id))

IsStud(p) == p.type = "stud"
IsAntiStud(p) == p.type = "anti_stud"

\* connectionPoints.filter(p => p.type === 'stud') / 'anti_stud'
Studs(def) == SelectSeq(def.connectionPoints, IsStud)
AntiStuds(def) == SelectSeq(def.connectionPoints, IsAntiStud)

-----------------------------------------------------------------------------
(* core/collision *)

\* the 0.01 rad tolerance of isRotated90Degrees: below one degree
ROTATION_TOLERANCE == 1

\* the plausible slip: a quarter turn is never seen
isRotated90Degrees_Never(rotationY) == FALSE

isRotated90Degrees(rotationY) ==
    LET normalized == JsMod(JsMod(rotationY, FULL_TURN) + FULL_TURN, FULL_TURN)
    IN  \/ Abs(normalized - QUARTER_TURN) < ROTATION_TOLERANCE
        \/ Abs(normalized - 3 * QUARTER_TURN) < ROTATION_TOLERANCE

\* getBrickBoundingBox returning null
NullBox == [isNull |-> TRUE]

\* the plausible slip: the footprint is not swapped under a quarter turn
BoundingBox_NoSwap(brick, dim) ==
    LET halfWidth == (dim.width * STUD_SPACING) \div 2
        halfDepth == (dim.depth * STUD_SPACING) \div 2
    IN  [isNull |-> FALSE,
         minX |-> brick.position.x - halfWidth, maxX |-> brick.position.x + halfWidth,
         minY |-> brick.position.y,
         maxY |-> brick.position.y + dim.height * PLATE_HEIGHT,
         minZ |-> brick.position.z - halfDepth, maxZ |-> brick.position.z + halfDepth]

\* the box of a brick whose definition has the dimensions dim
BoundingBox(brick, dim) ==
    LET rotated == isRotated90Degrees(brick.rotation.y)
        effectiveWidth == IF rotated THEN dim.depth ELSE dim.width
        effectiveDepth == IF rotated THEN dim.width ELSE dim.depth
        halfWidth == (effectiveWidth * STUD_SPACING) \div 2
        halfDepth == (effectiveDepth * STUD_SPACING) \div 2
        brickHeight == dim.height * PLATE_HEIGHT
    IN  [isNull |-> FALSE,
         minX |-> brick.position.x - halfWidth, maxX |-> brick.position.x + halfWidth,
         minY |-> brick.position.y,
         maxY |-> brick.position.y + brickHeight,
         minZ |-> brick.position.z - halfDepth, maxZ |-> brick.position.z + halfDepth]

getBrickBoundingBox(brick) ==
    IF ~Known(brick.definitionId) THEN NullBox
    ELSE BoundingBox(brick, RegistryGet(brick.definitionId).dimensions)

\* the plausible slip: the tolerance is dropped from the second comparison of each axis
boxesOverlap_HalfTolerance(a, b) ==
    /\ a.minX < b.maxX - BOX_TOLERANCE
    /\ a.maxX > b.minX
    /\ a.minY < b.maxY - BOX_TOLERANCE
    /\ a.maxY > b.minY
    /\ a.minZ < b.maxZ - BOX_TOLERANCE
    /\ a.maxZ > b.minZ

boxesOverlap(a, b) ==
    /\ a.minX < b.maxX - BOX_TOLERANCE
    /\ a.maxX > b.minX + BOX_TOLERANCE
    /\ a.minY < b.maxY - BOX_TOLERANCE
    /\ a.maxY > b.minY + BOX_TOLERANCE
    /\ a.minZ < b.maxZ - BOX_TOLERANCE
    /\ a.maxZ > b.minZ + BOX_TOLERANCE

\* excludeId is undefined
NoExclude == ""

\* the BrickInstance checkCollision and findCollidingBricks build from their argument
TempBrick(newBrick) ==
    [id |-> "temp",
     definitionId |-> newBrick.definitionId,
     position |-> newBrick.position,
     rotation |-> IF "rotation" \in DOMAIN newBrick THEN newBrick.rotation ELSE Vec(0, 0, 0)]

\* the test one iteration of either loop makes on an existing brick and its box
Collides(newBox, brick, box, excludeId) ==
    /\ ~(excludeId # NoExclude /\ brick.id = excludeId)
    /\ ~box.isNull
    /\ boxesOverlap(newBox, box)

\* checkCollision's loop, the new box being known: true at the first hit
AnyCollision(newBox, existingBricks, excludeId) ==
    IF newBox.isNull THEN FALSE
    ELSE \E i \in DOMAIN existingBricks :
            Collides(newBox, existingBricks[i], getBrickBoundingBox(existingBricks[i]),
                     excludeId)

checkCollision(newBrick, existingBricks, excludeId) ==
    AnyCollision(getBrickBoundingBox(TempBrick(newBrick)), existingBricks, excludeId)

\* findCollidingBricks' loop, the new box being known: every hit, in order
AllCollisions(newBox, existingBricks, excludeId) ==
    IF newBox.isNull THEN <<>>
    ELSE LET Hit(brick) == Collides(newBox, brick, getBrickBoundingBox(brick), excludeId)
         IN  SelectSeq(existingBricks, Hit)

findCollidingBricks(newBrick, existingBricks, excludeId) ==
    AllCollisions(getBrickBoundingBox(TempBrick(newBrick)), existingBricks, excludeId)

-----------------------------------------------------------------------------
(* core/connection/SnapDetector and core/constants: grid alignment *)

\* the plausible slip: the half-stud offset is not subtracted before rounding
snapToGridWithDimensions_NoSubtract(position, widthStuds, depthStuds, rotationY) ==
    LET halfStud == STUD_SPACING \div 2
        rotated == isRotated90Degrees(rotationY)
        effectiveWidth == IF rotated THEN depthStuds ELSE widthStuds
        effectiveDepth == IF rotated THEN widthStuds ELSE depthStuds
        xOffset == IF effectiveWidth % 2 = 0 THEN halfStud ELSE 0
        zOffset == IF effectiveDepth % 2 = 0 THEN halfStud ELSE 0
    IN  Vec(RoundDiv(position.x, STUD_SPACING) * STUD_SPACING + xOffset,
            RoundDiv(position.y, PLATE_HEIGHT) * PLATE_HEIGHT,
            RoundDiv(position.z, STUD_SPACING) * STUD_SPACING + zOffset)

snapToGridWithDimensions(position, widthStuds, depthStuds, rotationY) ==
    LET halfStud == STUD_SPACING \div 2
        rotated == isRotated90Degrees(rotationY)
        effectiveWidth == IF rotated THEN depthStuds ELSE widthStuds
        effectiveDepth == IF rotated THEN widthStuds ELSE depthStuds
        xOffset == IF effectiveWidth % 2 = 0 THEN halfStud ELSE 0
        zOffset == IF effectiveDepth % 2 = 0 THEN halfStud ELSE 0
    IN  Vec(RoundDiv(position.x - xOffset, STUD_SPACING) * STUD_SPACING + xOffset,
            RoundDiv(position.y, PLATE_HEIGHT) * PLATE_HEIGHT,
            RoundDiv(position.z - zOffset, STUD_SPACING) * STUD_SPACING + zOffset)

\* core/constants snapToGrid: the same rule without the rotation swap
snapToGrid(position, widthStuds, depthStuds) ==
    LET halfStud == STUD_SPACING \div 2
        xOffset == IF widthStuds % 2 = 0 THEN halfStud ELSE 0
        zOffset == IF depthStuds % 2 = 0 THEN halfStud ELSE 0
    IN  Vec(RoundDiv(position.x - xOffset, STUD_SPACING) * STUD_SPACING + xOffset,
            RoundDiv(position.y, PLATE_HEIGHT) * PLATE_HEIGHT,
            RoundDiv(position.z - zOffset, STUD_SPACING) * STUD_SPACING + zOffset)

-----------------------------------------------------------------------------
(* core/connection/SnapDetector: snap resolution *)

\* Math.cos and Math.sin at whole quarter turns (the only angles the R key produces);
\* they are not defined at other angles
Cos(deg) ==
    LET n == deg % FULL_TURN
    IN  CASE n = 0 -> 1 [] n = QUARTER_TURN -> 0
          [] n = 2 * QUARTER_TURN -> -1 [] n = 3 * QUARTER_TURN -> 0

Sin(deg) ==
    LET n == deg % FULL_TURN
    IN  CASE n = 0 -> 0 [] n = QUARTER_TURN -> 1
          [] n = 2 * QUARTER_TURN -> 0 [] n = 3 * QUARTER_TURN -> -1

rotatePointY(x, z, rotationY) ==
    [x |-> x * Cos(rotationY) - z * Sin(rotationY),
     z |-> x * Sin(rotationY) + z * Cos(rotationY)]

\* SnapDetector's getConnectionWorldPosition: the local point rotated by the brick's yaw
getConnectionWorldPosition(brick, point) ==
    LET rotated == rotatePointY(point.position.x, point.position.z, brick.rotation.y)
    IN  Vec(brick.position.x + rotated.x,
            brick.position.y + point.position.y,
            brick.position.z + rotated.z)

\* Array.prototype.map of getConnectionWorldPosition over a list of points
WorldPositions(brick, points) ==
    [i \in DOMAIN points |-> getConnectionWorldPosition(brick, points[i])]

getBrickStudPositions(brick) ==
    IF ~Known(brick.definitionId) THEN <<>>
    ELSE WorldPositions(brick, Studs(RegistryGet(brick.definitionId)))

getBrickAntiStudPositions(brick) ==
    IF ~Known(brick.definitionId) THEN <<>>
    ELSE WorldPositions(brick, AntiStuds(RegistryGet(brick.definitionId)))

\* allStudPositions.push(...getBrickStudPositions(brick)) over all existing bricks
RECURSIVE AllStudPositions(_)
AllStudPositions(existingBricks) ==
    IF existingBricks = <<>> THEN <<>>
    ELSE getBrickStudPositions(Head(existingBricks)) \o AllStudPositions(Tail(existingBricks))

\* alignedCount > 0: some anti-stud of the brick at `position` lies within the tolerance
\* of some existing stud on all three axes
checkAllStudsAlign(brickDef, position, existingBricks, rotationY) ==
    \E antiStud \in Range(AntiStuds(brickDef)),
       studPos \in Range(AllStudPositions(existingBricks)) :
        LET rotatedOffset == rotatePointY(antiStud.position.x, antiStud.position.z,
                                          rotationY)
            worldPos == Vec(position.x + rotatedOffset.x,
                            position.y + antiStud.position.y,
                            position.z + rotatedOffset.z)
        IN  /\ Abs(worldPos.x - studPos.x) < CONNECT_TOLERANCE
            /\ Abs(worldPos.y - studPos.y) < CONNECT_TOLERANCE
            /\ Abs(worldPos.z - studPos.z) < CONNECT_TOLERANCE

\* The running best of findSnapPosition: bestSnap, and bestDistance as its square
\* (hasBest = FALSE stands for bestDistance = Infinity).  Distances are compared by
\* their squares, which orders them as Math.sqrt does.
\* the plausible slip: the fallback position is the origin, not the rough position
NoBest_Origin(roughPosition) ==
    [bestSnap |-> [position |-> Vec(0, 0, 0), isValid |-> FALSE],
     hasBest |-> FALSE, bestDistanceSq |-> 0]

NoBest(roughPosition) ==
    [bestSnap |-> [position |-> roughPosition, isValid |-> FALSE],
     hasBest |-> FALSE, bestDistanceSq |-> 0]

\* the plausible slip: the distance is not compared with the best so far
Closer_Last(distSq, snapDistance, best) == distSq < snapDistance * snapDistance

Closer(distSq, snapDistance, best) ==
    /\ distSq < snapDistance * snapDistance
    /\ (best.hasBest => distSq < best.bestDistanceSq)

\* the plausible slip: the top-placement pass without the gate on Y
TopStep_NoYGate(ctx, existingBrick, existingStud, newAntiStud, best) ==
    LET rotatedOffset == rotatePointY(newAntiStud.position.x, newAntiStud.position.z,
                                      ctx.rotationY)
        snapPos == Vec(existingStud.x - rotatedOffset.x,
                       existingStud.y - newAntiStud.position.y,
                       existingStud.z - rotatedOffset.z)
        dx == snapPos.x - ctx.roughPosition.x
        dz == snapPos.z - ctx.roughPosition.z
        distSq == dx * dx + dz * dz
    IN  IF Closer(distSq, ctx.snapDistance, best)
           /\ checkAllStudsAlign(ctx.newBrickDef, snapPos, ctx.existingBricks,
                                 ctx.rotationY)
        THEN [bestSnap |-> [position |-> snapPos, isValid |-> TRUE,
                            connectedBrickId |-> existingBrick.id,
                            connectionType |-> "top"],
              hasBest |-> TRUE, bestDistanceSq |-> distSq]
        ELSE best

\* body of the innermost loop of the top-placement pass
TopStep(ctx, existingBrick, existingStud, newAntiStud, best) ==
    LET rotatedOffset == rotatePointY(newAntiStud.position.x, newAntiStud.position.z,
                                      ctx.rotationY)
        snapPos == Vec(existingStud.x - rotatedOffset.x,
                       existingStud.y - newAntiStud.position.y,
                       existingStud.z - rotatedOffset.z)
        yDelta == Abs(snapPos.y - ctx.roughPosition.y)
        dx == snapPos.x - ctx.roughPosition.x
        dz == snapPos.z - ctx.roughPosition.z
        distSq == dx * dx + dz * dz
    IN  IF yDelta > STUD_HEIGHT THEN best
        ELSE IF Closer(distSq, ctx.snapDistance, best)
                /\ checkAllStudsAlign(ctx.newBrickDef, snapPos, ctx.existingBricks,
                                      ctx.rotationY)
             THEN [bestSnap |-> [position |-> snapPos, isValid |-> TRUE,
                                 connectedBrickId |-> existingBrick.id,
                                 connectionType |-> "top"],
                   hasBest |-> TRUE, bestDistanceSq |-> distSq]
             ELSE best

\* body of the innermost loop of the bottom-placement pass
BottomStep(ctx, existingBrick, existingAntiStud, newStud, best) ==
    LET rotatedOffset == rotatePointY(newStud.position.x, newStud.position.z, ctx.rotationY)
        snapPos == Vec(existingAntiStud.x - rotatedOffset.x,
                       existingAntiStud.y - newStud.position.y - STUD_HEIGHT,
                       existingAntiStud.z - rotatedOffset.z)
        yDelta == Abs(snapPos.y - ctx.roughPosition.y)
        dx == snapPos.x - ctx.roughPosition.x
        dz == snapPos.z - ctx.roughPosition.z
        distSq == dx * dx + dz * dz
    IN  IF yDelta > STUD_HEIGHT THEN best
        ELSE IF Closer(distSq, ctx.snapDistance, best)
             THEN [bestSnap |-> [position |-> snapPos, isValid |-> TRUE,
                                 connectedBrickId |-> existingBrick.id,
                                 connectionType |-> "bottom"],
                   hasBest |-> TRUE, bestDistanceSq |-> distSq]
             ELSE best

\* The loops below bind each intermediate result once, as the code's local variables
\* do: CHOOSE r \in {F(v) : v \in {e}} : TRUE is F applied to the value of e.

\* for (const newPoint of newPoints): pass "top" or "bottom"
RECURSIVE PointLoop(_, _, _, _, _, _, _)
PointLoop(pass, ctx, existingBrick, existingPos, newPoints, k, best) ==
    IF k > Len(newPoints) THEN best
    ELSE CHOOSE r \in
           {PointLoop(pass, ctx, existingBrick, existingPos, newPoints, k + 1, next) :
              next \in {IF pass = "top"
                        THEN TopStep(ctx, existingBrick, existingPos, newPoints[k], best)
                        ELSE BottomStep(ctx, existingBrick, existingPos, newPoints[k], best)}} :
           TRUE

\* for (const existingPos of the existing brick's studs or anti-studs)
RECURSIVE ExistingPointLoop(_, _, _, _, _, _, _)
ExistingPointLoop(pass, ctx, existingBrick, existingPositions, newPoints, j, best) ==
    IF j > Len(existingPositions) THEN best
    ELSE CHOOSE r \in
           {ExistingPointLoop(pass, ctx, existingBrick, existingPositions, newPoints,
                              j + 1, next) :
              next \in {PointLoop(pass, ctx, existingBrick, existingPositions[j],
                                  newPoints, 1, best)}} :
           TRUE

\* for (const existingBrick of existingBricks)
RECURSIVE BrickLoop(_, _, _, _, _)
BrickLoop(pass, ctx, newPoints, i, best) ==
    IF i > Len(ctx.existingBricks) THEN best
    ELSE CHOOSE r \in
           {BrickLoop(pass, ctx, newPoints, i + 1, next) :
              next \in {ExistingPointLoop(pass, ctx, ctx.existingBricks[i], existingPositions,
                                          newPoints, 1, best) :
                          existingPositions \in
                            {IF pass = "top"
                             THEN getBrickStudPositions(ctx.existingBricks[i])
                             ELSE getBrickAntiStudPositions(ctx.existingBricks[i])}}} :
           TRUE

\* the top-placement pass over every brick, then the bottom-placement pass
SnapPasses(ctx) ==
    CHOOSE r \in
      {BrickLoop("bottom", ctx, newStuds, 1, afterTop).bestSnap :
         afterTop \in {BrickLoop("top", ctx, newAntiStuds, 1, NoBest(ctx.roughPosition)) :
                         newAntiStuds \in {AntiStuds(ctx.newBrickDef)}},
         newStuds \in {Studs(ctx.newBrickDef)}} :
      TRUE

findSnapPosition(newBrickDef, roughPosition, existingBricks, snapDistance, rotationY) ==
    CHOOSE r \in
      {SnapPasses(ctx) :
         ctx \in {[newBrickDef |-> newBrickDef, roughPosition |-> roughPosition,
                   existingBricks |-> existingBricks, snapDistance |-> snapDistance,
                   rotationY |-> rotationY]}} :
      TRUE

\* findSnapPosition's default snapDistance: LEGO.STUD_SPACING * 1.5
DefaultSnapDistance == (STUD_SPACING * 3) \div 2

-----------------------------------------------------------------------------
(* components/canvas GhostBrick: the preview computed by one useFrame callback *)

\* finalPosition and snapped: the snap position if there are bricks and the snap is
\* valid, the grid position otherwise
FinalPosition(snapResult, grid, existingBricks) ==
    IF Len(existingBricks) > 0 /\ snapResult.isValid
    THEN [position |-> snapResult.position, snapped |-> TRUE]
    ELSE [position |-> grid, snapped |-> FALSE]

\* the collision flag of the ghost at its final position
PreviewAt(final, definitionId, existingBricks, rotationY) ==
    [finalPosition |-> final.position,
     snapped |-> final.snapped,
     collision |-> checkCollision([definitionId |-> definitionId,
                                   position |-> final.position,
                                   rotation |-> Vec(0, rotationY, 0)],
                                  existingBricks, NoExclude)]

\* from the rough position to finalPosition, snapped and the collision flag
FramePreview(definitionId, roughPosition, existingBricks, rotationY) ==
    PreviewAt(FinalPosition(findSnapPosition(RegistryGet(definitionId), roughPosition,
                                             existingBricks, DefaultSnapDistance,
                                             rotationY),
                            snapToGridWithDimensions(
                                roughPosition,
                                RegistryGet(definitionId).dimensions.width,
                                RegistryGet(definitionId).dimensions.depth,
                                rotationY),
                            existingBricks),
              definitionId, existingBricks, rotationY)

-----------------------------------------------------------------------------
(* core/physics/ConnectionManager *)

\* A key of the connections Map.  A Connection's id is a uuid() value, the n-th one
\* drawn being [uuid |-> n, pair |-> <<>>]; the string getConnectionKey builds is
\* [uuid |-> 0, pair |-> <<id, id>>], which is no uuid.
Uuid(n) == [uuid |-> n, pair |-> <<>>]

\* the brick ids in use, in the order Array.prototype.sort() puts them
BrickIds == <<"a", "b", "c", "d">>

IdRank(id) == CHOOSE i \in DOMAIN BrickIds : BrickIds[i] = id

\* [brick1Id, brick2Id].sort().join(':')
getConnectionKey(brick1Id, brick2Id) ==
    [uuid |-> 0,
     pair |-> IF IdRank(brick1Id) <= IdRank(brick2Id) THEN <<brick1Id, brick2Id>>
              ELSE <<brick2Id, brick1Id>>]

\* this.connections.has(key)
ConnectionsHas(conns, key) == \E i \in DOMAIN conns : conns[i].id = key

\* the plausible slip: the brick's own height is not added to the point's
CMWorldPosition_NoBrickY(brick, point) ==
    Vec(brick.position.x + point.position.x,
        point.position.y,
        brick.position.z + point.position.z)

\* the private getConnectionWorldPosition of the manager: no rotation is applied
CMWorldPosition(brick, point) ==
    Vec(brick.position.x + point.position.x,
        brick.position.y + point.position.y,
        brick.position.z + point.position.z)

\* Array.prototype.indexOf
IndexOf(seq, e) ==
    CHOOSE i \in DOMAIN seq : seq[i] = e /\ \A j \in 1..(i - 1) : seq[j] # e

\* dx < tolerance && dy < tolerance && dz < tolerance
WithinTolerance(newPos, existingPos, tolerance) ==
    /\ Abs(newPos.x - existingPos.x) < tolerance
    /\ Abs(newPos.y - existingPos.y) < tolerance
    /\ Abs(newPos.z - existingPos.z) < tolerance

\* the pairs (newPoints[i], existingPoints[j]) in the order of the nested loops
PointPairs(newPoints, existingPoints) ==
    [k \in 1..(Len(newPoints) * Len(existingPoints)) |->
        [point1 |-> newPoints[((k - 1) \div Len(existingPoints)) + 1],
         point2 |-> existingPoints[((k - 1) % Len(existingPoints)) + 1]]]

\* the candidate pushed for a pair of points within the tolerance (its point1, point2
\* and distance, which createConnections does not read, are left out)
Candidate(newBrick, newDef, existingBrick, existingDef, pp) ==
    [brick1Id |-> newBrick.id,
     brick2Id |-> existingBrick.id,
     point1Index |-> IndexOf(newDef.connectionPoints, pp.point1) - 1,
     point2Index |-> IndexOf(existingDef.connectionPoints, pp.point2) - 1]

\* one pair of nested loops of findConnections
PairCandidates(newBrick, newDef, newPoints, existingBrick, existingDef, existingPoints, tolerance) ==
    LET Close(pp) == WithinTolerance(CMWorldPosition(newBrick, pp.point1),
                                     CMWorldPosition(existingBrick, pp.point2), tolerance)
        MakeCandidates(pairs) ==
            [k \in DOMAIN pairs |->
                Candidate(newBrick, newDef, existingBrick, existingDef, pairs[k])]
    IN  MakeCandidates(SelectSeq(PointPairs(newPoints, existingPoints), Close))

\* the body of the loop over existingBricks, both definitions being known
DefCandidates(newBrick, newDef, existingBrick, existingDef, tolerance) ==
    PairCandidates(newBrick, newDef, AntiStuds(newDef),
                   existingBrick, existingDef, Studs(existingDef), tolerance)
    \o PairCandidates(newBrick, newDef, Studs(newDef),
                      existingBrick, existingDef, AntiStuds(existingDef), tolerance)

RECURSIVE FindLoop(_, _, _, _)
FindLoop(newBrick, newDef, existingBricks, tolerance) ==
    IF existingBricks = <<>> THEN <<>>
    ELSE (IF Head(existingBricks).id = newBrick.id THEN <<>>
          ELSE IF ~Known(Head(existingBricks).definitionId) THEN <<>>
          ELSE DefCandidates(newBrick, newDef, Head(existingBricks),
                             RegistryGet(Head(existingBricks).definitionId), tolerance))
         \o FindLoop(newBrick, newDef, Tail(existingBricks), tolerance)

findConnections(newBrick, existingBricks, tolerance) ==
    IF ~Known(newBrick.definitionId) THEN <<>>
    ELSE FindLoop(newBrick, RegistryGet(newBrick.definitionId), existingBricks, tolerance)

\* createConnections on the Map conns after `count` uuids have been drawn: the Map
\* and the count afterwards
RECURSIVE createConnections(_, _, _)
createConnections(conns, count, candidates) ==
    IF candidates = <<>> THEN [connections |-> conns, uuidCount |-> count]
    ELSE IF ConnectionsHas(conns, getConnectionKey(Head(candidates).brick1Id,
                                                   Head(candidates).brick2Id))
         THEN createConnections(conns, count, Tail(candidates))
         ELSE createConnections(
                  Append(conns, [id |-> Uuid(count + 1),
                                 brick1Id |-> Head(candidates).brick1Id,
                                 brick2Id |-> Head(candidates).brick2Id,
                                 point1Index |-> Head(candidates).point1Index,
                                 point2Index |-> Head(candidates).point2Index]),
                  count + 1, Tail(candidates))

removeConnectionsForBrick(conns, brickId) ==
    LET Stays(conn) == ~(conn.brick1Id = brickId \/ conn.brick2Id = brickId)
    IN  SelectSeq(conns, Stays)

\* the plausible slip: only the connections that start at the brick are returned
getConnectionsForBrick_Brick1Only(conns, brickId) ==
    LET Starts(conn) == conn.brick1Id = brickId
    IN  SelectSeq(conns, Starts)

getConnectionsForBrick(conns, brickId) ==
    LET Touches(conn) == conn.brick1Id = brickId \/ conn.brick2Id = brickId
    IN  SelectSeq(conns, Touches)

\* the plausible slip: only connections that start at the brick are followed
OtherEnds_Brick2Only(touching, brickId) ==
    [i \in DOMAIN touching |-> touching[i].brick2Id]

\* the loop of getConnectedBrickIds over the connections of the brick
OtherEnds(touching, brickId) ==
    [i \in DOMAIN touching |->
        IF touching[i].brick1Id = brickId THEN touching[i].brick2Id
        ELSE touching[i].brick1Id]

getConnectedBrickIds(conns, brickId) ==
    OtherEnds(getConnectionsForBrick(conns, brickId), brickId)

\* the while loop of findConnectedGroup
RECURSIVE GroupLoop(_, _, _)
GroupLoop(conns, queue, visited) ==
    IF queue = <<>> THEN visited
    ELSE IF Head(queue) \in visited THEN GroupLoop(conns, Tail(queue), visited)
    ELSE LET Unvisited(id) == id \notin visited \cup {Head(queue)}
         IN  GroupLoop(conns,
                       Tail(queue)
                       \o SelectSeq(getConnectedBrickIds(conns, Head(queue)), Unvisited),
                       visited \cup {Head(queue)})

findConnectedGroup(conns, startBrickId) == GroupLoop(conns, <<startBrickId>>, {})

\* bricks.get(id) on a Map kept as the sequence of its values
MapHas(brickMap, id) == \E i \in DOMAIN brickMap : brickMap[i].id = id
MapGet(brickMap, id) == brickMap[CHOOSE i \in DOMAIN brickMap : brickMap[i].id = id]

\* loadConnections: clear, then Map.set of each connection under its id
RECURSIVE loadConnections(_, _)
loadConnections(conns, loaded) ==
    IF loaded = <<>> THEN conns
    ELSE loadConnections(
             IF ConnectionsHas(conns, Head(loaded).id)
             THEN [i \in DOMAIN conns |->
                      IF conns[i].id = Head(loaded).id THEN Head(loaded) ELSE conns[i]]
             ELSE Append(conns, Head(loaded)),
             Tail(loaded))

isGrounded(conns, brickId, brickMap) ==
    \E id \in findConnectedGroup(conns, brickId) :
        MapHas(brickMap, id) /\ MapGet(brickMap, id).position.y <= 0

\* brickArray.filter(b => b.id !== brick.id)
OtherBricks(brickArray, brick) ==
    LET Other(b) == b.id # brick.id
    IN  SelectSeq(brickArray, Other)

\* PhysicsBrickScene's effect after connectionManager.clear(): findConnections and
\* createConnections for each brick against all the others
RECURSIVE RebuildLoop(_, _, _, _)
RebuildLoop(brickArray, k, conns, count) ==
    IF k > Len(brickArray) THEN [connections |-> conns, uuidCount |-> count]
    ELSE CHOOSE r \in
           {RebuildLoop(brickArray, k + 1, made.connections, made.uuidCount) :
              made \in {createConnections(
                            conns, count,
                            findConnections(brickArray[k],
                                            OtherBricks(brickArray, brickArray[k]),
                                            CONNECT_TOLERANCE))}} :
           TRUE

-----------------------------------------------------------------------------
(* Idle values of the variables a specification does not use *)

HarnessIdle == call = [fn |-> "none"] /\ ret = [done |-> FALSE]
CMIdle == parts = <<>> /\ connections = <<>> /\ uuidCount = 0 /\ pc = "idle"
PlaceIdle ==
    /\ bricks = <<>>
    /\ ghostRotationY = 0
    /\ ghostRotationYRef = 0
    /\ meshPosition = Vec(0, 0, 0)
    /\ hasCollision = FALSE

\* the stores have their own specifications; elsewhere their variables stay idle (the
\* registry operators then read the registrations of the constructor)
RegistryIdle == definitions = <<>> /\ registerLog = <<>>
GeometryIdle == geometryCache = <<>> /\ meshCount = 0 /\ geometryLog = <<>>
SceneIdle == sceneConnections = <<>> /\ selectedBrickIds = <<>> /\ history = <<>> /\ historyIndex = -1
StorageIdle == projects = <<>> /\ projectCount = 0
RenderIdle == renderedBricks = <<>> /\ groundedBricks = {} /\ memoConnections = <<>>
StoreIdle == RegistryIdle /\ GeometryIdle /\ SceneIdle /\ StorageIdle /\ RenderIdle
NotRegistryIdle == GeometryIdle /\ SceneIdle /\ StorageIdle /\ RenderIdle
NotGeometryIdle == RegistryIdle /\ SceneIdle /\ StorageIdle /\ RenderIdle
NotSceneIdle == RegistryIdle /\ GeometryIdle /\ StorageIdle /\ RenderIdle
NotStorageIdle == RegistryIdle /\ GeometryIdle /\ SceneIdle /\ RenderIdle
NotRenderIdle == RegistryIdle /\ GeometryIdle /\ SceneIdle /\ StorageIdle

\* a definition id that is not registered
UnknownDefinitionId == "unknown_part"

\* a placement (definitionId, position, optional rotation) as a BrickInstance
AsBrick(placement, id) ==
    [id |-> id,
     definitionId |-> placement.definitionId,
     position |-> placement.position,
     rotation |-> IF "rotation" \in DOMAIN placement THEN placement.rotation
                  ELSE Vec(0, 0, 0)]

-----------------------------------------------------------------------------
(* SpecCollision: checkCollision and findCollidingBricks on two placements *)

\* B ranges over half-stud cells around A, displaced by 0..MaxJitter tenths of a mm
MaxCellX == 3
MaxCellZ == 2
MaxPlateY == 3
MaxJitter == 2

CollisionDefsA == {"brick_1x1", "plate_1x2", UnknownDefinitionId}
CollisionDefsB == {"brick_1x1", "plate_1x2", UnknownDefinitionId}
CollisionYawsA == {0, QUARTER_TURN}
CollisionYawsB == {0, QUARTER_TURN, -QUARTER_TURN, QUARTER_TURN \div 2}

CollisionPlacementsA ==
    {[definitionId |-> d, position |-> Vec(0, 0, 0), rotation |-> Vec(0, yaw, 0)] :
        d \in CollisionDefsA, yaw \in CollisionYawsA}
    \cup {[definitionId |-> d, position |-> Vec(0, 0, 0)] : d \in CollisionDefsA}

CollisionPlacementsB ==
    {[definitionId |-> d,
      position |-> Vec(kx * (STUD_SPACING \div 2) + j, ky * PLATE_HEIGHT + j,
                       kz * (STUD_SPACING \div 2) + j),
      rotation |-> Vec(0, yaw, 0)] :
        d \in CollisionDefsB, yaw \in CollisionYawsB,
        kx \in -MaxCellX..MaxCellX, ky \in -MaxPlateY..MaxPlateY,
        kz \in -MaxCellZ..MaxCellZ, j \in 0..MaxJitter}

InitCollision ==
    /\ call \in {[fn |-> "collision", a |-> a, b |-> b] :
                    a \in CollisionPlacementsA, b \in CollisionPlacementsB}
    /\ ret = [done |-> FALSE]
    /\ CMIdle
    /\ PlaceIdle
    /\ StoreIdle

\* checkCollision(A, [B]) and checkCollision(B, [A]), nothing excluded
CallCheckCollision ==
    /\ call.fn = "collision"
    /\ ~ret.done
    /\ ret' = [done |-> TRUE, fn |-> "checkCollision",
               ab |-> checkCollision(call.a, <<AsBrick(call.b, "b")>>, NoExclude),
               ba |-> checkCollision(call.b, <<AsBrick(call.a, "a")>>, NoExclude)]
    /\ UNCHANGED call

\* findCollidingBricks(A, [B]) and findCollidingBricks(B, [A]), nothing excluded
CallFindCollidingBricks ==
    /\ call.fn = "collision"
    /\ ~ret.done
    /\ ret' = [done |-> TRUE, fn |-> "findCollidingBricks",
               ab |-> findCollidingBricks(call.a, <<AsBrick(call.b, "b")>>, NoExclude),
               ba |-> findCollidingBricks(call.b, <<AsBrick(call.a, "a")>>, NoExclude)]
    /\ UNCHANGED call

NextCollision ==
    \/ CallCheckCollision /\ UNCHANGED <<cmVars, placeVars, storeVars>>
    \/ CallFindCollidingBricks /\ UNCHANGED <<cmVars, placeVars, storeVars>>

SpecCollision == InitCollision /\ [][NextCollision]_vars

\* The claims' own reading of a placement's box, from the footprint and the yaw:
\* a yaw of 90 or 270 degrees (modulo a full turn) swaps width and depth
QuarterTurned(yaw) == yaw % (2 * QUARTER_TURN) = QUARTER_TURN
Extent(placement) ==
    LET dim == RegistryGet(placement.definitionId).dimensions
        yaw == IF "rotation" \in DOMAIN placement THEN placement.rotation.y ELSE 0
        w == IF QuarterTurned(yaw) THEN dim.depth ELSE dim.width
        d == IF QuarterTurned(yaw) THEN dim.width ELSE dim.depth
    IN  [lo |-> Vec(placement.position.x - (w * STUD_SPACING) \div 2,
                    placement.position.y,
                    placement.position.z - (d * STUD_SPACING) \div 2),
         hi |-> Vec(placement.position.x + (w * STUD_SPACING) \div 2,
                    placement.position.y + dim.height * PLATE_HEIGHT,
                    placement.position.z + (d * STUD_SPACING) \div 2)]

Min(m, n) == IF m < n THEN m ELSE n
Max(m, n) == IF m > n THEN m ELSE n

\* how far the two boxes reach into each other along each axis (negative: a gap)
Penetration(p, q) ==
    LET a == Extent(p)
        b == Extent(q)
    IN  Vec(Min(a.hi.x, b.hi.x) - Max(a.lo.x, b.lo.x),
            Min(a.hi.y, b.hi.y) - Max(a.lo.y, b.lo.y),
            Min(a.hi.z, b.hi.z) - Max(a.lo.z, b.lo.z))

\* face to face: the boxes meet in exactly a face on one axis and share area on the others
TouchingFaces(p, q) ==
    LET pen == Penetration(p, q)
    IN  \/ pen.x = 0 /\ pen.y > 0 /\ pen.z > 0
        \/ pen.y = 0 /\ pen.x > 0 /\ pen.z > 0
        \/ pen.z = 0 /\ pen.x > 0 /\ pen.y > 0

Interpenetrating(p, q) ==
    LET pen == Penetration(p, q)
    IN  pen.x > BOX_TOLERANCE /\ pen.y > BOX_TOLERANCE /\ pen.z > BOX_TOLERANCE

BothKnown == Known(call.a.definitionId) /\ Known(call.b.definitionId)

\* what checkCollision or findCollidingBricks reported, as a boolean per direction
ReportedAB == IF ret.fn = "checkCollision" THEN ret.ab ELSE Len(ret.ab) > 0
ReportedBA == IF ret.fn = "checkCollision" THEN ret.ba ELSE Len(ret.ba) > 0

\* C6: for any two placements (known or unknown definition, any yaw), with nothing
\* excluded, checkCollision(A, [B]) and checkCollision(B, [A]) give the same answer.
C6_CollisionSymmetric ==
    (call.fn = "collision" /\ ret.done /\ ret.fn = "checkCollision") => ret.ab = ret.ba

\* C6 witness: a checked pair that collides, one of the two turned by a quarter
C6_Witness ==
    /\ call.fn = "collision" /\ ret.done /\ ret.fn = "checkCollision"
    /\ ret.ab /\ ret.ba
    /\ call.b.rotation.y = QUARTER_TURN
    /\ call.b.position.x # 0

\* C7: two parts whose boxes merely touch face to face are never reported as colliding
\* by checkCollision or findCollidingBricks, and two parts whose boxes reach into each
\* other by more than the 0.1 mm tolerance on all three axes always are.
C7_TouchNotCollideDeepCollide ==
    (call.fn = "collision" /\ ret.done /\ BothKnown) =>
        /\ TouchingFaces(call.a, call.b) => (~ReportedAB /\ ~ReportedBA)
        /\ Interpenetrating(call.a, call.b) => (ReportedAB /\ ReportedBA)

\* C7 witness: a quarter-turned plate_1x2 side by side with A in X, touching, reported
\* by findCollidingBricks as not colliding
C7_Witness ==
    /\ call.fn = "collision" /\ ret.done /\ BothKnown
    /\ ret.fn = "findCollidingBricks"
    /\ call.b.definitionId = "plate_1x2" /\ call.b.rotation.y = QUARTER_TURN
    /\ Penetration(call.a, call.b).x = 0
    /\ TouchingFaces(call.a, call.b)
    /\ ret.ab = <<>>

\* C7 second witness: a stacked pair (touching in Y) and a deep overlap both occur
C7_WitnessDeep ==
    /\ call.fn = "collision" /\ ret.done /\ BothKnown
    /\ Interpenetrating(call.a, call.b)
    /\ ReportedAB

-----------------------------------------------------------------------------
(* SpecGrid: snapToGridWithDimensions and snapToGrid applied once and again *)

MaxCoord == 45
MaxStuds == 2

GridYaws == {0, QUARTER_TURN, -QUARTER_TURN, QUARTER_TURN \div 2}

\* x runs over every tenth of a millimetre of the range; y and z over values on, next
\* to and half-way between grid lines
GridPositions ==
    {Vec(x, y, z) : x \in -MaxCoord..MaxCoord,
                    y \in {-(PLATE_HEIGHT \div 2), 0, PLATE_HEIGHT \div 2 - 1, PLATE_HEIGHT + 1},
                    z \in {-(STUD_SPACING \div 2), -1, STUD_SPACING \div 2,
                           STUD_SPACING - 1}}

InitGrid ==
    /\ call \in {[fn |-> "snap", position |-> p, widthStuds |-> w, depthStuds |-> d,
                  rotationY |-> yaw] :
                    p \in GridPositions, w \in 1..MaxStuds, d \in 1..MaxStuds,
                    yaw \in GridYaws}
    /\ ret = [done |-> FALSE]
    /\ CMIdle
    /\ PlaceIdle
    /\ StoreIdle

CallSnapToGridWithDimensions ==
    /\ call.fn = "snap"
    /\ ~ret.done
    /\ ret' = [done |-> TRUE, fn |-> "snapToGridWithDimensions", again |-> FALSE,
               once |-> snapToGridWithDimensions(call.position, call.widthStuds,
                                                 call.depthStuds, call.rotationY)]
    /\ UNCHANGED call

CallSnapToGrid ==
    /\ call.fn = "snap"
    /\ ~ret.done
    /\ ret' = [done |-> TRUE, fn |-> "snapToGrid", again |-> FALSE,
               once |-> snapToGrid(call.position, call.widthStuds, call.depthStuds)]
    /\ UNCHANGED call

\* the same function on its own result, with the same width, depth and yaw
CallSnapAgain ==
    /\ call.fn = "snap"
    /\ ret.done
    /\ ~ret.again
    /\ ret' = [ret EXCEPT !.again = TRUE] @@
              [twice |-> IF ret.fn = "snapToGridWithDimensions"
                         THEN snapToGridWithDimensions(ret.once, call.widthStuds,
                                                       call.depthStuds, call.rotationY)
                         ELSE snapToGrid(ret.once, call.widthStuds, call.depthStuds)]
    /\ UNCHANGED call

NextGrid ==
    \/ CallSnapToGridWithDimensions /\ UNCHANGED <<cmVars, placeVars, storeVars>>
    \/ CallSnapToGrid /\ UNCHANGED <<cmVars, placeVars, storeVars>>
    \/ CallSnapAgain /\ UNCHANGED <<cmVars, placeVars, storeVars>>

SpecGrid == InitGrid /\ [][NextGrid]_vars

\* C8: snapToGridWithDimensions (and snapToGrid) is idempotent: snapping the snapped
\* point again with the same width, depth and yaw returns the same point.
C8_SnapIdempotent ==
    (call.fn = "snap" /\ ret.done /\ ret.again) => ret.twice = ret.once

\* C8 witness: an even footprint turned by a quarter, snapped twice from a point that
\* the first snap moved on all three axes onto a half-stud offset in x
C8_Witness ==
    /\ call.fn = "snap" /\ ret.done /\ ret.again
    /\ ret.fn = "snapToGridWithDimensions"
    /\ call.widthStuds = 1 /\ call.depthStuds = 2 /\ call.rotationY = QUARTER_TURN
    /\ ret.once.x # call.position.x
    /\ ret.once.y # call.position.y
    /\ ret.once.z # call.position.z
    /\ ret.once.x % STUD_SPACING = STUD_SPACING \div 2

-----------------------------------------------------------------------------
(* SpecSnap: findSnapPosition, and the useFrame preview, over small scenes *)

MaxExisting == 2
MaxRoughX == 6

\* a pool of placed bricks, pairwise non-colliding: a 2x2 brick on the ground, a 1x1
\* brick on one of its studs, a 1x2 brick on another stud overhanging the side, a
\* quarter-turned plate beside it on the ground, and a brick of an unknown definition
ScenePool ==
    << [id |-> "e1", definitionId |-> "brick_2x2",
        position |-> Vec(40, 0, 40), rotation |-> Vec(0, 0, 0)],
       [id |-> "e2", definitionId |-> "brick_1x1",
        position |-> Vec(0, 96, 0), rotation |-> Vec(0, 0, 0)],
       [id |-> "e3", definitionId |-> "brick_1x2",
        position |-> Vec(120, 96, 0), rotation |-> Vec(0, 0, 0)],
       [id |-> "e4", definitionId |-> "plate_1x2",
        position |-> Vec(-80, 0, 40), rotation |-> Vec(0, QUARTER_TURN, 0)],
       [id |-> "e5", definitionId |-> UnknownDefinitionId,
        position |-> Vec(40, 0, 40), rotation |-> Vec(0, 0, 0)] >>

\* the bricks of the pool at the indices of `picked`, in pool order
RECURSIVE PickFrom(_, _)
PickFrom(i, picked) ==
    IF i > Len(ScenePool) THEN <<>>
    ELSE (IF i \in picked THEN <<ScenePool[i]>> ELSE <<>>) \o PickFrom(i + 1, picked)

\* the existing parts of a scene are pairwise non-colliding
PairwiseNonColliding(scene) ==
    \A i, j \in DOMAIN scene :
        i # j => ~checkCollision(scene[i], <<scene[j]>>, NoExclude)

\* the scenes of at most MaxExisting bricks of the pool
Scenes ==
    {sc \in {PickFrom(1, picked) : picked \in {q \in SUBSET DOMAIN ScenePool :
                                                    Cardinality(q) <= MaxExisting}} :
        PairwiseNonColliding(sc)}

SnapDefs == {"brick_1x1", "plate_1x2", "brick_2x2", "brick_round_2x2"}
SnapYaws == {0, QUARTER_TURN, 3 * QUARTER_TURN}

\* rough positions: x in steps of 3 mm, y at the ground, on and next to the gate of
\* one stud height and at the two brick tops
RoughPositions ==
    {Vec(30 * i - 90, y, z) : i \in 0..MaxRoughX,
                              y \in {0, STUD_HEIGHT, STUD_HEIGHT + 1,
                                     3 * PLATE_HEIGHT - STUD_HEIGHT, 3 * PLATE_HEIGHT,
                                     6 * PLATE_HEIGHT},
                              z \in {0, 50}}

SnapCalls ==
    {[fn |-> "snap3d", definitionId |-> d, roughPosition |-> p, existingBricks |-> sc,
      snapDistance |-> DefaultSnapDistance, rotationY |-> yaw] :
        d \in SnapDefs, p \in RoughPositions, sc \in Scenes, yaw \in SnapYaws}

\* with no existing brick no point is rotated: any yaw and any snap distance
EmptySceneCalls ==
    {[fn |-> "snap3d", definitionId |-> d, roughPosition |-> p, existingBricks |-> <<>>,
      snapDistance |-> sd, rotationY |-> yaw] :
        d \in SnapDefs, p \in RoughPositions,
        sd \in {0, 4 * DefaultSnapDistance},
        yaw \in {QUARTER_TURN \div 2, -QUARTER_TURN, 5 * QUARTER_TURN}}

InitSnap ==
    /\ call \in SnapCalls \cup EmptySceneCalls
    /\ ret = [done |-> FALSE]
    /\ CMIdle
    /\ PlaceIdle
    /\ StoreIdle

\* the result of findSnapPosition with checkCollision of the definition at the returned
\* position and the same yaw against the same existing parts
SnapReport(result, c) ==
    [done |-> TRUE, fn |-> "findSnapPosition", result |-> result,
     collision |->
         checkCollision([definitionId |-> c.definitionId, position |-> result.position,
                         rotation |-> Vec(0, c.rotationY, 0)],
                        c.existingBricks, NoExclude)]

CallFindSnapPosition ==
    /\ call.fn = "snap3d"
    /\ ~ret.done
    /\ ret' = SnapReport(findSnapPosition(RegistryGet(call.definitionId),
                                          call.roughPosition, call.existingBricks,
                                          call.snapDistance, call.rotationY),
                         call)
    /\ UNCHANGED call

\* one useFrame callback of GhostBrick with the default snap distance
CallFramePreview ==
    /\ call.fn = "snap3d"
    /\ call.snapDistance = DefaultSnapDistance
    /\ ~ret.done
    /\ ret' = [done |-> TRUE, fn |-> "useFrame",
               preview |-> FramePreview(call.definitionId, call.roughPosition,
                                        call.existingBricks, call.rotationY)]
    /\ UNCHANGED call

NextSnap ==
    \/ CallFindSnapPosition /\ UNCHANGED <<cmVars, placeVars, storeVars>>
    \/ CallFramePreview /\ UNCHANGED <<cmVars, placeVars, storeVars>>

SpecSnap == InitSnap /\ [][NextSnap]_vars

SnapReturned == call.fn = "snap3d" /\ ret.done /\ ret.fn = "findSnapPosition"

\* C2: whenever findSnapPosition returns isValid = true, checkCollision at the returned
\* position with the same yaw against the same (pairwise non-colliding) existing parts
\* returns false.
C2_ValidSnapNeverCollides ==
    (SnapReturned /\ ret.result.isValid) => ~ret.collision

\* x and z on the half-stud lattice, y on the plate lattice
GridAligned(position) ==
    /\ position.x % (STUD_SPACING \div 2) = 0
    /\ position.y % PLATE_HEIGHT = 0
    /\ position.z % (STUD_SPACING \div 2) = 0

\* C9: with no existing part findSnapPosition returns isValid = false, the rough position
\* and no connectedBrickId, for every definition, rough position, snap distance and yaw;
\* and the preview then falls back to a grid-aligned position that checkCollision
\* passes against the empty scene.
C9_EmptySceneFallsBackToGrid ==
    (call.fn = "snap3d" /\ ret.done /\ call.existingBricks = <<>>) =>
        /\ ret.fn = "findSnapPosition" =>
              /\ ~ret.result.isValid
              /\ ret.result.position = call.roughPosition
              /\ "connectedBrickId" \notin DOMAIN ret.result
              /\ ~ret.collision
        /\ ret.fn = "useFrame" =>
              /\ ~ret.preview.snapped
              /\ GridAligned(ret.preview.finalPosition)
              /\ ~ret.preview.collision

\* C9 witness: findSnapPosition on the empty scene with a wide snap distance and a yaw
\* that is no quarter turn, from a rough position off the grid
C9_Witness ==
    /\ SnapReturned
    /\ call.existingBricks = <<>>
    /\ call.snapDistance = 4 * DefaultSnapDistance
    /\ call.rotationY = QUARTER_TURN \div 2
    /\ ~GridAligned(call.roughPosition)
    /\ ~ret.result.isValid

\* the preview's fallback on the empty scene moves an off-grid rough position
C9_WitnessPreview ==
    /\ call.fn = "snap3d" /\ ret.done /\ ret.fn = "useFrame"
    /\ call.existingBricks = <<>>
    /\ ret.preview.finalPosition # call.roughPosition

-----------------------------------------------------------------------------
(* SpecCM: the ConnectionManager over a fixed set of placed bricks *)

\* uuid() is drawn at most MaxUuid times
MaxUuid == 5

\* a brick of the given definition, unrotated
PlacedBrick(id, definitionId, x, y, z) ==
    [id |-> id, definitionId |-> definitionId, position |-> Vec(x, y, z),
     rotation |-> Vec(0, 0, 0)]

\* 1x1 on 1x1; 1x2 on 1x2 (two stud pairs); a stack of three; a brick of an unknown
\* definition on a 1x1
CMScenes ==
    { << PlacedBrick("a", "brick_1x1", 0, 0, 0),
         PlacedBrick("b", "brick_1x1", 0, 3 * PLATE_HEIGHT, 0) >>,
      << PlacedBrick("a", "brick_1x2", 0, 0, 0),
         PlacedBrick("b", "brick_1x2", 0, 3 * PLATE_HEIGHT, 0) >>,
      << PlacedBrick("a", "brick_1x1", 0, 0, 0),
         PlacedBrick("b", "plate_1x1", 0, 3 * PLATE_HEIGHT, 0),
         PlacedBrick("c", "brick_1x1", 0, 4 * PLATE_HEIGHT, 0) >>,
      << PlacedBrick("a", "brick_1x1", 0, 0, 0),
         PlacedBrick("b", UnknownDefinitionId, 0, 3 * PLATE_HEIGHT, 0) >> }

InitCM ==
    /\ parts \in CMScenes
    /\ connections = <<>>
    /\ uuidCount = 0
    /\ pc = "idle"
    /\ HarnessIdle
    /\ PlaceIdle
    /\ StoreIdle

\* findConnections of one brick against all the others; the candidates are kept
CMFindConnections ==
    /\ \E i \in DOMAIN parts :
          ret' = [done |-> TRUE, fn |-> "findConnections",
                  candidates |-> findConnections(parts[i], OtherBricks(parts, parts[i]),
                                                 CONNECT_TOLERANCE)]
    /\ UNCHANGED <<call, cmVars>>

\* createConnections of the candidates last found (again, if it was called before)
CMCreateConnections ==
    /\ ret.done
    /\ ret.fn = "findConnections"
    /\ \E made \in {createConnections(connections, uuidCount, ret.candidates)} :
          /\ made.uuidCount <= MaxUuid
          /\ connections' = made.connections
          /\ uuidCount' = made.uuidCount
    /\ UNCHANGED <<call, ret, parts, pc>>

CMRemoveConnectionsForBrick ==
    /\ \E i \in DOMAIN parts :
          connections' = removeConnectionsForBrick(connections, parts[i].id)
    /\ UNCHANGED <<call, ret, parts, uuidCount, pc>>

CMClear ==
    /\ connections' = <<>>
    /\ UNCHANGED <<call, ret, parts, uuidCount, pc>>

\* the rebuild effect of PhysicsBrickScene: clear, then the loop over every brick
CMRebuild ==
    /\ \E made \in {RebuildLoop(parts, 1, <<>>, uuidCount)} :
          /\ made.uuidCount <= MaxUuid
          /\ connections' = made.connections
          /\ uuidCount' = made.uuidCount
    /\ UNCHANGED <<call, ret, parts, pc>>

NextCM ==
    \/ CMFindConnections /\ UNCHANGED <<placeVars, storeVars>>
    \/ CMCreateConnections /\ UNCHANGED <<placeVars, storeVars>>
    \/ CMRemoveConnectionsForBrick /\ UNCHANGED <<placeVars, storeVars>>
    \/ CMClear /\ UNCHANGED <<placeVars, storeVars>>
    \/ CMRebuild /\ UNCHANGED <<placeVars, storeVars>>

SpecCM == InitCM /\ [][NextCM]_vars

\* the unordered pair of brick ids a connection joins
PairOf(conn) == {conn.brick1Id, conn.brick2Id}

\* C1: in every reachable state of the ConnectionManager at most one stored Connection
\* exists per unordered pair of brick ids.
C1_OneConnectionPerPair ==
    \A i, j \in DOMAIN connections :
        i # j => PairOf(connections[i]) # PairOf(connections[j])

-----------------------------------------------------------------------------
(* SpecGround: isGrounded over loaded connection sets and small part maps *)

\* a loaded connection set has at most MaxConnections connections
MaxConnections == 3

\* every ordered pair of ids, a connection of a brick with itself included
AllEdges ==
    [k \in 1..(Len(BrickIds) * Len(BrickIds)) |->
        <<BrickIds[((k - 1) \div Len(BrickIds)) + 1], BrickIds[((k - 1) % Len(BrickIds)) + 1]>>]

\* the connections of the edges picked, each under an id of its own
LoadedConnections(picked) ==
    LET Picked(k) == k \in picked
        MakeConnections(ks) ==
            [n \in DOMAIN ks |->
                [id |-> Uuid(ks[n]), brick1Id |-> AllEdges[ks[n]][1],
                 brick2Id |-> AllEdges[ks[n]][2], point1Index |-> 0, point2Index |-> 0]]
    IN  MakeConnections(SelectSeq([k \in DOMAIN AllEdges |-> k], Picked))

ConnectionSets == {q \in SUBSET DOMAIN AllEdges : Cardinality(q) <= MaxConnections}

\* part maps: a on the ground, raised or absent; b below the ground, raised or absent;
\* c raised or absent; d never in the map
GroundPartMaps ==
    {ya \o yb \o yc :
        ya \in {<<>>, <<PlacedBrick("a", "brick_1x1", 0, 0, 0)>>,
                <<PlacedBrick("a", "brick_1x1", 0, 3 * PLATE_HEIGHT, 0)>>},
        yb \in {<<>>, <<PlacedBrick("b", "brick_1x1", 80, -PLATE_HEIGHT, 0)>>,
                <<PlacedBrick("b", "brick_1x1", 80, 3 * PLATE_HEIGHT, 0)>>},
        yc \in {<<>>, <<PlacedBrick("c", "brick_1x1", 160, PLATE_HEIGHT, 0)>>}}

\* the connections to load are drawn at the start
InitGround ==
    /\ parts \in GroundPartMaps
    /\ \E picked \in ConnectionSets :
          call = [fn |-> "loadConnections", loaded |-> LoadedConnections(picked)]
    /\ ret = [done |-> FALSE]
    /\ connections = <<>>
    /\ uuidCount = 0
    /\ pc = "idle"
    /\ PlaceIdle
    /\ StoreIdle

GroundLoadConnections ==
    /\ connections' = loadConnections(<<>>, call.loaded)
    /\ ret' = [done |-> FALSE]
    /\ UNCHANGED <<call, parts, uuidCount, pc>>

GroundCallIsGrounded ==
    /\ \E i \in DOMAIN BrickIds :
          ret' = [done |-> TRUE, fn |-> "isGrounded", brickId |-> BrickIds[i],
                  result |-> isGrounded(connections, BrickIds[i], parts)]
    /\ UNCHANGED <<call, cmVars>>

NextGround ==
    \/ GroundLoadConnections /\ UNCHANGED <<placeVars, storeVars>>
    \/ GroundCallIsGrounded /\ UNCHANGED <<placeVars, storeVars>>

SpecGround == InitGround /\ [][NextGround]_vars

\* some stored connection joins x and y
Joined(x, y) ==
    \E i \in DOMAIN connections :
        \/ connections[i].brick1Id = x /\ connections[i].brick2Id = y
        \/ connections[i].brick1Id = y /\ connections[i].brick2Id = x

\* the least set holding `ids` and closed under Joined
RECURSIVE ClosedUnderJoined(_)
ClosedUnderJoined(ids) ==
    LET more == ids \cup {y \in Range(BrickIds) : \E x \in ids : Joined(x, y)}
    IN  IF more = ids THEN ids ELSE ClosedUnderJoined(more)

\* the connected component of id
Component(id) == ClosedUnderJoined({id})

\* C5: isGrounded(id, parts) is true if and only if the connected component of id (id
\* included) contains an id that is in the part map with position.y <= 0.
C5_GroundedIffComponentTouchesGround ==
    (ret.done /\ ret.fn = "isGrounded") =>
        (ret.result <=>
            \E id \in Component(ret.brickId) :
                \E i \in DOMAIN parts : parts[i].id = id /\ parts[i].position.y <= 0)

\* C5 witness: a brick that is not on the ground itself is grounded through a component
\* of at least three ids
C5_Witness ==
    /\ ret.done /\ ret.fn = "isGrounded" /\ ret.result
    /\ \A i \in DOMAIN parts : parts[i].id = ret.brickId => parts[i].position.y > 0
    /\ Cardinality(Component(ret.brickId)) >= 3

-----------------------------------------------------------------------------
(* SpecStack: part B stacked on part A, connected, then A removed *)

\* the pairs of catalog definitions with the same footprint
StackPairs ==
    {p \in CatalogIds \X CatalogIds :
        /\ RegistryGet(p[1]).dimensions.width = RegistryGet(p[2]).dimensions.width
        /\ RegistryGet(p[1]).dimensions.depth = RegistryGet(p[2]).dimensions.depth}

\* A on the ground at (x, 0, z), B at A's height above it
StackOf(aDef, bDef, x, z) ==
    << PlacedBrick("a", aDef, x, 0, z),
       PlacedBrick("b", bDef, x, RegistryGet(aDef).dimensions.height * PLATE_HEIGHT, z) >>

InitStack ==
    /\ \E p \in StackPairs, x \in {0, STUD_SPACING \div 2}, z \in {0, -STUD_SPACING} :
          /\ call = [fn |-> "stack", aDef |-> p[1], bDef |-> p[2]]
          /\ parts = StackOf(p[1], p[2], x, z)
    /\ ret = [done |-> FALSE]
    /\ connections = <<>>
    /\ uuidCount = 0
    /\ pc = "placed"
    /\ PlaceIdle
    /\ StoreIdle

\* findConnections(B, [A]) and createConnections
StackConnect ==
    /\ pc = "placed"
    /\ \E made \in {createConnections(connections, uuidCount,
                                      findConnections(parts[2], <<parts[1]>>,
                                                      CONNECT_TOLERANCE))} :
          /\ connections' = made.connections
          /\ uuidCount' = made.uuidCount
    /\ pc' = "connected"
    /\ UNCHANGED <<call, ret, parts>>

\* A leaves the part map and removeConnectionsForBrick(A.id)
StackRemoveA ==
    /\ pc = "connected"
    /\ connections' = removeConnectionsForBrick(connections, parts[1].id)
    /\ parts' = Tail(parts)
    /\ pc' = "removed"
    /\ UNCHANGED <<call, ret, uuidCount>>

NextStack ==
    \/ StackConnect /\ UNCHANGED <<placeVars, storeVars>>
    \/ StackRemoveA /\ UNCHANGED <<placeVars, storeVars>>

SpecStack == InitStack /\ [][NextStack]_vars

\* C4 as claimed: once B, of A's footprint and stacked on A, is connected isGrounded(B)
\* is true, and once A and its connections are removed isGrounded(B) is false.
C4_StackedGroundedUntilRemoved ==
    /\ pc = "connected" => isGrounded(connections, "b", parts)
    /\ pc = "removed" => ~isGrounded(connections, "b", parts)

\* round and cone parts have their one stud and one anti-stud in the centre column
Centred(def) == def.shape \in {"round", "cone"}

\* a stud of A and an anti-stud of B share a column: both parts centred or both with
\* full grids, or a footprint whose centre is a grid column
StudsMeet(aDef, bDef) ==
    \/ Centred(aDef) = Centred(bDef)
    \/ aDef.dimensions.width % 2 = 1 /\ aDef.dimensions.depth % 2 = 1

\* C4 as amended: once B is connected isGrounded(B) is true exactly when a stud of A
\* meets an anti-stud of B (not so for a 2x2 round or cone part paired with a 2x2 box or
\* slope part), and once A and its connections are removed isGrounded(B) is false.
C4_StackedGroundedIffStudsMeet ==
    /\ pc = "connected" =>
          (isGrounded(connections, "b", parts)
              <=> StudsMeet(RegistryGet(call.aDef), RegistryGet(call.bDef)))
    /\ pc = "removed" => ~isGrounded(connections, "b", parts)

\* C4 witness: a pair of different definitions whose studs meet, after A was removed
C4_Witness ==
    /\ pc = "removed"
    /\ call.aDef # call.bDef
    /\ StudsMeet(RegistryGet(call.aDef), RegistryGet(call.bDef))
    /\ ~isGrounded(connections, "b", parts)

-----------------------------------------------------------------------------
(* useSceneStore.  The state of the store is a record of its fields; a Map is the *)
(* sequence of its values in insertion order, keyed by the field id of the value. *)
(* An optional field of a brick (stepIndex, groupId) is a field of the record     *)
(* when it has a value.                                                           *)

maxHistorySize == 50

\* useUIStore.selectedColorId
selectedColorId == 4

\* the state of the store made of its fields
SceneState(b, c, s, h, i) ==
    [bricks |-> b, connections |-> c, selectedBrickIds |-> s, history |-> h,
     historyIndex |-> i]

\* the state of the store in the current state of the model
SceneNow == SceneState(bricks, sceneConnections, selectedBrickIds, history, historyIndex)

\* Map.set: the value of an existing key is replaced in place, a new key is appended
MapSet(map, value) ==
    IF MapHas(map, value.id)
    THEN [i \in DOMAIN map |-> IF map[i].id = value.id THEN value ELSE map[i]]
    ELSE Append(map, value)

\* Array.filter(bid => bid !== id)
RECURSIVE WithoutId(_, _)
WithoutId(ids, id) ==
    IF ids = <<>> THEN <<>>
    ELSE IF Head(ids) = id THEN WithoutId(Tail(ids), id)
    ELSE <<Head(ids)>> \o WithoutId(Tail(ids), id)

\* Map.delete
RECURSIVE MapDelete(_, _)
MapDelete(map, id) ==
    IF map = <<>> THEN <<>>
    ELSE IF Head(map).id = id THEN MapDelete(Tail(map), id)
    ELSE <<Head(map)>> \o MapDelete(Tail(map), id)

\* the loop of removeBrick over the connections: those of the brick are deleted
RECURSIVE WithoutBrick(_, _)
WithoutBrick(conns, id) ==
    IF conns = <<>> THEN <<>>
    ELSE IF Head(conns).brick1Id = id \/ Head(conns).brick2Id = id
    THEN WithoutBrick(Tail(conns), id)
    ELSE <<Head(conns)>> \o WithoutBrick(Tail(conns), id)

\* the optional fields of a record that have a value
OptionalFields(d) ==
    (IF "stepIndex" \in DOMAIN d THEN [stepIndex |-> d.stepIndex] ELSE <<>>)
        @@ (IF "groupId" \in DOMAIN d THEN [groupId |-> d.groupId] ELSE <<>>)

\* saveToHistory: the entries after the cursor are dropped, the current bricks and
\* connections are pushed, the oldest entries are shifted out beyond maxHistorySize
\* the plausible slip: the entries after the cursor are kept
saveToHistory_KeepsFuture(st) ==
    LET newHistory == SubSeq(st.history, 1, st.historyIndex + 1)
                         \o <<[bricks |-> st.bricks, connections |-> st.connections]>>
                         \o SubSeq(st.history, st.historyIndex + 2, Len(st.history))
    IN  [st EXCEPT !.history = newHistory, !.historyIndex = st.historyIndex + 1]

saveToHistory(st) ==
    LET newHistory == Append(SubSeq(st.history, 1, st.historyIndex + 1),
                             [bricks |-> st.bricks, connections |-> st.connections])
        kept == IF Len(newHistory) > maxHistorySize
                THEN SubSeq(newHistory, Len(newHistory) - maxHistorySize + 1, Len(newHistory))
                ELSE newHistory
    IN  [st EXCEPT !.history = kept, !.historyIndex = Len(kept) - 1]

\* the BrickInstance addBrick builds
NewBrick(id, definitionId, position, colorId, rotation) ==
    [id |-> id, definitionId |-> definitionId, position |-> position,
     rotation |-> rotation, colorId |-> colorId, isSelected |-> FALSE,
     isLocked |-> FALSE, isGhost |-> FALSE, connections |-> <<>>, isStatic |-> FALSE]

\* addBrick, id being the uuid drawn
addBrick(st, id, definitionId, position, colorId, rotation) ==
    saveToHistory([st EXCEPT !.bricks = MapSet(st.bricks,
                       NewBrick(id, definitionId, position, colorId, rotation))])

removeBrick_NoCascade(st, id) ==
    saveToHistory([st EXCEPT
        !.bricks = MapDelete(st.bricks, id),
        !.selectedBrickIds = WithoutId(st.selectedBrickIds, id)])

\* removeBrick
removeBrick(st, id) ==
    saveToHistory([st EXCEPT
        !.bricks = MapDelete(st.bricks, id),
        !.selectedBrickIds = WithoutId(st.selectedBrickIds, id),
        !.connections = WithoutBrick(st.connections, id)])

\* selectBrick
selectBrick(st, id, additive) ==
    IF ~MapHas(st.bricks, id) THEN st
    ELSE IF additive
    THEN IF \E k \in DOMAIN st.selectedBrickIds : st.selectedBrickIds[k] = id
         THEN [st EXCEPT
                 !.selectedBrickIds = WithoutId(st.selectedBrickIds, id),
                 !.bricks = MapSet(st.bricks, [MapGet(st.bricks, id) EXCEPT !.isSelected = FALSE])]
         ELSE [st EXCEPT
                 !.selectedBrickIds = Append(st.selectedBrickIds, id),
                 !.bricks = MapSet(st.bricks, [MapGet(st.bricks, id) EXCEPT !.isSelected = TRUE])]
    ELSE [st EXCEPT
            !.selectedBrickIds = <<id>>,
            !.bricks = [i \in DOMAIN st.bricks |->
                           [st.bricks[i] EXCEPT !.isSelected = (st.bricks[i].id = id)]]]

\* exportScene: the persisted fields of every brick, in the order of the map
exportScene(st) ==
    [i \in DOMAIN st.bricks |->
        [id |-> st.bricks[i].id, definitionId |-> st.bricks[i].definitionId,
         position |-> st.bricks[i].position, rotation |-> st.bricks[i].rotation,
         colorId |-> st.bricks[i].colorId] @@ OptionalFields(st.bricks[i])]

ImportedBrick_KeepsLock(d) ==
    [id |-> d.id, definitionId |-> d.definitionId, position |-> d.position,
     rotation |-> d.rotation, colorId |-> d.colorId, isSelected |-> FALSE,
     isLocked |-> (d.id = "a"), isGhost |-> FALSE, connections |-> <<>>,
     isStatic |-> FALSE] @@ OptionalFields(d)

\* the BrickInstance importScene builds of a record
ImportedBrick(d) ==
    [id |-> d.id, definitionId |-> d.definitionId, position |-> d.position,
     rotation |-> d.rotation, colorId |-> d.colorId, isSelected |-> FALSE,
     isLocked |-> FALSE, isGhost |-> FALSE, connections |-> <<>>, isStatic |-> FALSE]
        @@ OptionalFields(d)

\* the loop of importScene over the records from the k-th on
RECURSIVE ImportLoop(_, _, _)
ImportLoop(newBricks, data, k) ==
    IF k > Len(data) THEN newBricks
    ELSE ImportLoop(MapSet(newBricks, ImportedBrick(data[k])), data, k + 1)

\* importScene
importScene(st, data) ==
    saveToHistory(SceneState(ImportLoop(<<>>, data, 1), <<>>, <<>>, <<>>, -1))

\* updateBrick: { ...brick, ...updates } under the id of a brick the map has
updateBrick(st, id, updates) ==
    IF ~MapHas(st.bricks, id) THEN st
    ELSE [st EXCEPT !.bricks = MapSet(st.bricks, updates @@ MapGet(st.bricks, id))]

moveBrick(st, id, position) == updateBrick(st, id, [position |-> position])

rotateBrick(st, id, rotation) == updateBrick(st, id, [rotation |-> rotation])

setBrickColor(st, id, colorId) == saveToHistory(updateBrick(st, id, [colorId |-> colorId]))

\* deselectBrick
deselectBrick(st, id) ==
    IF ~MapHas(st.bricks, id) THEN st
    ELSE [st EXCEPT
            !.bricks = MapSet(st.bricks, [MapGet(st.bricks, id) EXCEPT !.isSelected = FALSE]),
            !.selectedBrickIds = WithoutId(st.selectedBrickIds, id)]

\* clearSelection
clearSelection(st) ==
    [st EXCEPT
       !.bricks = [i \in DOMAIN st.bricks |-> [st.bricks[i] EXCEPT !.isSelected = FALSE]],
       !.selectedBrickIds = <<>>]

\* selectAll
selectAll(st) ==
    [st EXCEPT
       !.bricks = [i \in DOMAIN st.bricks |-> [st.bricks[i] EXCEPT !.isSelected = TRUE]],
       !.selectedBrickIds = [i \in DOMAIN st.bricks |-> st.bricks[i].id]]

\* the plausible slip: the first entry is undone too, to the empty scene
undo_PastStart(st) ==
    IF st.historyIndex < 0 THEN st
    ELSE IF st.historyIndex = 0
         THEN [st EXCEPT !.bricks = <<>>, !.connections = <<>>, !.historyIndex = -1,
                         !.selectedBrickIds = <<>>]
    ELSE [st EXCEPT !.bricks = st.history[st.historyIndex].bricks,
                    !.connections = st.history[st.historyIndex].connections,
                    !.historyIndex = st.historyIndex - 1,
                    !.selectedBrickIds = <<>>]

\* undo: history[historyIndex - 1] (the index of the sequence is one more)
undo(st) ==
    IF st.historyIndex <= 0 THEN st
    ELSE [st EXCEPT !.bricks = st.history[st.historyIndex].bricks,
                    !.connections = st.history[st.historyIndex].connections,
                    !.historyIndex = st.historyIndex - 1,
                    !.selectedBrickIds = <<>>]

\* redo: history[historyIndex + 1]
redo(st) ==
    IF st.historyIndex >= Len(st.history) - 1 THEN st
    ELSE [st EXCEPT !.bricks = st.history[st.historyIndex + 2].bricks,
                    !.connections = st.history[st.historyIndex + 2].connections,
                    !.historyIndex = st.historyIndex + 1,
                    !.selectedBrickIds = <<>>]

\* clearScene
clearScene(st) ==
    saveToHistory([st EXCEPT !.bricks = <<>>, !.connections = <<>>,
                             !.selectedBrickIds = <<>>])

-----------------------------------------------------------------------------
(* SpecPlace: the place tool of GhostBrick: frames, R-key rotations, clicks *)

\* at most MaxBricks bricks are placed, the ghost is turned at most MaxTurns times and
\* the pointer ranges over MaxPointerX + 1 columns
MaxBricks == 2
MaxTurns == 2
MaxPointerX == 4

\* the definitions selected in the palette: boxes with studs
PlaceDefs == {"brick_1x1", "brick_1x2"}

\* where the pointer's ray meets the scene, in x and z
PointerPoints == {[x |-> 30 * i - 60, z |-> z] : i \in 0..MaxPointerX, z \in {0, 50}}

\* the geometry's bounding box top of a box with studs: the stud cylinders end one stud
\* height above the body
bboxMaxY(def) == def.dimensions.height * PLATE_HEIGHT + STUD_HEIGHT

\* the ray meets the mesh whose box covers the point
CoversBox(box, point) ==
    /\ ~box.isNull
    /\ box.minX <= point.x /\ point.x <= box.maxX
    /\ box.minZ <= point.z /\ point.z <= box.maxZ

Covers(brick, point) == CoversBox(getBrickBoundingBox(brick), point)

\* hitMesh.position.y + bbox.max.y - LEGO.STUD_HEIGHT
worldTop(hitMesh) ==
    hitMesh.position.y + bboxMaxY(RegistryGet(hitMesh.definitionId)) - STUD_HEIGHT

\* the rough positions a frame can compute for a pointer point with the camera looking
\* down: on the first brick the ray meets (the highest one covering the point), else
\* on the ground plane
RoughPositionsAt(point, brickArray) ==
    IF \E i \in DOMAIN brickArray : Covers(brickArray[i], point)
    THEN {Vec(point.x, worldTop(brickArray[i]), point.z) :
            i \in {k \in DOMAIN brickArray :
                     /\ Covers(brickArray[k], point)
                     /\ \A j \in DOMAIN brickArray :
                           Covers(brickArray[j], point)
                               => worldTop(brickArray[j]) <= worldTop(brickArray[k])}}
    ELSE {Vec(point.x, 0, point.z)}

InitPlace ==
    /\ call \in {[fn |-> "place", selectedDefinitionId |-> d] : d \in PlaceDefs}
    /\ ret = [done |-> FALSE]
    /\ CMIdle
    /\ PlaceIdle
    /\ StoreIdle

\* one useFrame callback with the place tool active: the mesh position and, through
\* setHasCollision and the render that follows, the collision flag
Frame ==
    /\ \E point \in PointerPoints :
         \E roughPosition \in RoughPositionsAt(point, bricks) :
           \E preview \in {FramePreview(call.selectedDefinitionId, roughPosition, bricks,
                                        ghostRotationY)} :
              /\ meshPosition' = preview.finalPosition
              /\ hasCollision' = preview.collision
    /\ UNCHANGED <<bricks, ghostRotationY, ghostRotationYRef>>

\* the R key: rotateGhost, and the effect that copies the new yaw into the ref
RotateKey ==
    /\ ghostRotationY < MaxTurns * QUARTER_TURN
    /\ ghostRotationY' = ghostRotationY + QUARTER_TURN
    /\ ghostRotationYRef' = ghostRotationY + QUARTER_TURN
    /\ UNCHANGED <<bricks, meshPosition, hasCollision>>

\* handleClick: nothing while the collision flag is set, else addBrick at the mesh
\* position with the yaw of the ref and the selected colour
Click ==
    /\ Len(bricks) < MaxBricks
    /\ ~hasCollision
    /\ \E st \in {addBrick(SceneNow, BrickIds[Len(bricks) + 1], call.selectedDefinitionId,
                           meshPosition, selectedColorId, Vec(0, ghostRotationYRef, 0))} :
          /\ bricks' = st.bricks
          /\ history' = st.history
          /\ historyIndex' = st.historyIndex
    /\ UNCHANGED <<ghostRotationY, ghostRotationYRef, meshPosition, hasCollision>>
    /\ UNCHANGED <<sceneConnections, selectedBrickIds>>

NextPlace ==
    \/ Frame /\ UNCHANGED <<harnessVars, cmVars, storeVars>>
    \/ RotateKey /\ UNCHANGED <<harnessVars, cmVars, storeVars>>
    \/ Click /\ UNCHANGED <<harnessVars, cmVars, notSceneVars>>

SpecPlace == InitPlace /\ [][NextPlace]_vars

\* C3: starting from the empty scene no two placed bricks ever collide (per
\* checkCollision), under any interleaving of frames, R-key rotations and clicks.
C3_NoTwoPlacedBricksCollide ==
    \A i, j \in DOMAIN bricks :
        i # j => ~checkCollision(bricks[i], <<bricks[j]>>, NoExclude)

-----------------------------------------------------------------------------
(* exporters/LDrawExporter.  A line is the sequence of the fields that join(' ')  *)
(* separates by blanks (the empty line has none); a number handed to formatNumber *)
(* is an integer count of thousandths.                                            *)

\* LDU.LDU_PER_MM = 2.5: thousandths of an LDU per tenth of a millimetre
LDU_PER_MM == 250

mmToLDU(mm) == mm * LDU_PER_MM

\* the rotation matrix of Euler angles at whole quarter turns, row-major
eulerToMatrix(rotation) ==
    [k \in 1..9 |->
        CASE k = 1 -> Cos(rotation.y) * Cos(rotation.z)
          [] k = 2 -> -Cos(rotation.y) * Sin(rotation.z)
          [] k = 3 -> Sin(rotation.y)
          [] k = 4 -> Sin(rotation.x) * Sin(rotation.y) * Cos(rotation.z)
                          + Cos(rotation.x) * Sin(rotation.z)
          [] k = 5 -> -Sin(rotation.x) * Sin(rotation.y) * Sin(rotation.z)
                          + Cos(rotation.x) * Cos(rotation.z)
          [] k = 6 -> -Sin(rotation.x) * Cos(rotation.y)
          [] k = 7 -> -Cos(rotation.x) * Sin(rotation.y) * Cos(rotation.z)
                          + Sin(rotation.x) * Sin(rotation.z)
          [] k = 8 -> Cos(rotation.x) * Sin(rotation.y) * Sin(rotation.z)
                          + Sin(rotation.x) * Cos(rotation.z)
          [] k = 9 -> Cos(rotation.x) * Cos(rotation.y)]

\* R' = S * R * S: the entries (0,1), (1,0), (1,2) and (2,1) are negated
ReflectY(m) == [k \in 1..9 |-> IF k \in {2, 4, 6, 8} THEN -m[k] ELSE m[k]]

\* toFixed(3) of the thousandths f in 1..999 with the trailing zeros removed
FractionDigits(f) ==
    IF f % 100 = 0 THEN ToString(f \div 100)
    ELSE IF f % 10 = 0 THEN ToString(f \div 100) \o ToString((f \div 10) % 10)
    ELSE ToString(f \div 100) \o ToString((f \div 10) % 10) \o ToString(f % 10)

\* an integer prints without a decimal point (and zero without a sign), any other
\* number with up to three decimals
formatNumber(n) ==
    IF n % 1000 = 0 THEN ToString(n \div 1000)
    ELSE (IF n < 0 THEN "-" ELSE "") \o ToString(Abs(n) \div 1000) \o "."
             \o FractionDigits(Abs(n) % 1000)

\* exportBrick's null
NullLine == <<"null">>

\* the plausible slip: the y coordinate is exported as it is, Y-up
BrickLine_YUp(brick, definition, matrix) ==
    << "1", ToString(brick.colorId),
       formatNumber(mmToLDU(brick.position.x)),
       formatNumber(mmToLDU(brick.position.y)),
       formatNumber(mmToLDU(brick.position.z)),
       formatNumber(1000 * matrix[1]), formatNumber(1000 * matrix[4]),
       formatNumber(1000 * matrix[7]), formatNumber(1000 * matrix[2]),
       formatNumber(1000 * matrix[5]), formatNumber(1000 * matrix[8]),
       formatNumber(1000 * matrix[3]), formatNumber(1000 * matrix[6]),
       formatNumber(1000 * matrix[9]),
       definition.ldrawId >>

\* the type-1 line of a brick and its reflected matrix: a d g b e h c f i
BrickLine(brick, definition, matrix) ==
    << "1", ToString(brick.colorId),
       formatNumber(mmToLDU(brick.position.x)),
       formatNumber(mmToLDU(-brick.position.y)),
       formatNumber(mmToLDU(brick.position.z)),
       formatNumber(1000 * matrix[1]), formatNumber(1000 * matrix[4]),
       formatNumber(1000 * matrix[7]), formatNumber(1000 * matrix[2]),
       formatNumber(1000 * matrix[5]), formatNumber(1000 * matrix[8]),
       formatNumber(1000 * matrix[3]), formatNumber(1000 * matrix[6]),
       formatNumber(1000 * matrix[9]),
       definition.ldrawId >>

exportBrick(brick) ==
    IF ~Known(brick.definitionId) THEN NullLine
    ELSE BrickLine(brick, RegistryGet(brick.definitionId),
                   ReflectY(eulerToMatrix(brick.rotation)))

\* the file header
Header(modelName) ==
    << <<"0", modelName>>, <<"0", "Name:", "model.ldr">>,
       <<"0", "Author:", "LEGO", "Simulator">>,
       <<"0", "!LDRAW_ORG", "Unofficial_Model">>, <<>> >>

stepComment == <<"0", "STEP">>

\* the loop over bricks: the line of each brick is pushed unless it is null
RECURSIVE PushBricks(_, _, _)
PushBricks(lines, brickArray, k) ==
    IF k > Len(brickArray) THEN lines
    ELSE CHOOSE r \in
           {PushBricks(IF line # NullLine THEN Append(lines, line) ELSE lines,
                       brickArray, k + 1) :
              line \in {exportBrick(brickArray[k])}} :
           TRUE

export(brickArray, modelName) ==
    PushBricks(Header(modelName), brickArray, 1) \o << <<>>, <<"0", "NOFILE">> >>

\* the plausible slip: a part without a step index is put into step 1
StepOf_DefaultOne(brick) == IF "stepIndex" \in DOMAIN brick THEN brick.stepIndex ELSE 1

\* brick.stepIndex ?? 0
StepOf(brick) == IF "stepIndex" \in DOMAIN brick THEN brick.stepIndex ELSE 0

\* the keys of stepGroups, in insertion order
RECURSIVE StepKeys(_, _, _)
StepKeys(brickArray, k, keys) ==
    IF k > Len(brickArray) THEN keys
    ELSE StepKeys(brickArray, k + 1,
                  IF \E i \in DOMAIN keys : keys[i] = StepOf(brickArray[k]) THEN keys
                  ELSE Append(keys, StepOf(brickArray[k])))

\* stepGroups.get(step): the bricks of the step, in input order
StepGroup(brickArray, step) ==
    LET InStep(brick) == StepOf(brick) = step
    IN  SelectSeq(brickArray, InStep)

\* the plausible slip: the keys are left in insertion order
sortedSteps_InsertionOrder(keys) == keys

\* Array.from(stepGroups.keys()).sort((a, b) => a - b)
RECURSIVE sortedSteps(_)
sortedSteps(keys) ==
    IF keys = <<>> THEN <<>>
    ELSE LET least == CHOOSE a \in Range(keys) : \A b \in Range(keys) : a <= b
             NotLeast(a) == a # least
         IN  <<least>> \o sortedSteps(SelectSeq(keys, NotLeast))

\* the loop over the sorted steps: the step comment before every group but the first
RECURSIVE StepLoop(_, _, _, _)
StepLoop(lines, steps, brickArray, i) ==
    IF i > Len(steps) THEN lines
    ELSE StepLoop(PushBricks(IF i > 1 THEN lines \o << <<>>, stepComment, <<>> >>
                                      ELSE lines,
                             StepGroup(brickArray, steps[i]), 1),
                  steps, brickArray, i + 1)

exportWithSteps(brickArray, modelName) ==
    StepLoop(Header(modelName), sortedSteps(StepKeys(brickArray, 1, <<>>)), brickArray, 1)
        \o << <<>>, <<"0", "NOFILE">> >>

-----------------------------------------------------------------------------
(* SpecExport: export and exportWithSteps over short part lists *)

\* a part list has at most MaxExportBricks parts, with step indices up to MaxStep
MaxExportBricks == 3
MaxStep == 2

\* the k-th part of a list: its colour, position and yaw
ExportPositions == << Vec(0, 0, 0), Vec(45, 3 * PLATE_HEIGHT, -STUD_SPACING),
                      Vec(-130, PLATE_HEIGHT, 40), Vec(STUD_SPACING, 0, 5) >>
ExportYaws == << 0, QUARTER_TURN, 3 * QUARTER_TURN, 2 * QUARTER_TURN >>

BrickDataAt(k, definitionId) ==
    [id |-> ToString(k), definitionId |-> definitionId,
     position |-> ExportPositions[((k - 1) % Len(ExportPositions)) + 1],
     rotation |-> Vec(0, ExportYaws[((k - 1) % Len(ExportYaws)) + 1], 0),
     colorId |-> k]

\* the same part with a step index
WithStep(data, step) ==
    [f \in DOMAIN data \cup {"stepIndex"} |-> IF f = "stepIndex" THEN step ELSE data[f]]

ExportDefs == {"brick_2x4", "plate_1x2", UnknownDefinitionId}

\* the k-th part of every kind: known or unknown, without a step index or with one
BrickDataChoices(k) ==
    {BrickDataAt(k, d) : d \in ExportDefs}
    \cup {WithStep(BrickDataAt(k, d), step) : d \in ExportDefs, step \in 0..MaxStep}

\* the part lists of length n
RECURSIVE BrickLists(_)
BrickLists(n) ==
    IF n = 0 THEN {<<>>}
    ELSE {Append(list, data) : list \in BrickLists(n - 1), data \in BrickDataChoices(n)}

InitExport ==
    /\ \E n \in 0..MaxExportBricks :
         \E list \in BrickLists(n) :
            call = [fn |-> "export", bricks |-> list, modelName |-> "Untitled"]
    /\ ret = [done |-> FALSE]
    /\ CMIdle
    /\ PlaceIdle
    /\ StoreIdle

CallExport ==
    /\ call.fn = "export"
    /\ ~ret.done
    /\ ret' = [done |-> TRUE, fn |-> "export",
               lines |-> export(call.bricks, call.modelName)]
    /\ UNCHANGED call

CallExportWithSteps ==
    /\ call.fn = "export"
    /\ ~ret.done
    /\ ret' = [done |-> TRUE, fn |-> "exportWithSteps",
               lines |-> exportWithSteps(call.bricks, call.modelName)]
    /\ UNCHANGED call

NextExport ==
    \/ CallExport /\ UNCHANGED <<cmVars, placeVars, storeVars>>
    \/ CallExportWithSteps /\ UNCHANGED <<cmVars, placeVars, storeVars>>

SpecExport == InitExport /\ [][NextExport]_vars

\* the type-1 lines of an output, in order, each as <<colour, part file>>
IsPartLine(line) == Len(line) > 0 /\ line[1] = "1"
PartLinesOf(lines) ==
    LET partLines == SelectSeq(lines, IsPartLine)
    IN  [i \in DOMAIN partLines |-> <<partLines[i][2], partLines[i][Len(partLines[i])]>>]

\* the parts of a list with a definition of the catalog, in order, each as
\* <<colour, part file>>
HasKnownDefinition(data) == Known(data.definitionId)
KnownParts(list) ==
    LET known == SelectSeq(list, HasKnownDefinition)
    IN  [i \in DOMAIN known |->
            <<ToString(known[i].colorId), RegistryGet(known[i].definitionId).ldrawId>>]

\* the parts of a list by ascending step index (none counts as 0), in input order
\* within a step
RECURSIVE ByStep(_, _)
ByStep(list, step) ==
    IF step > MaxStep THEN <<>>
    ELSE StepGroup(list, step) \o ByStep(list, step + 1)

\* the header comes first and the blank line and `0 NOFILE` last
HeaderAndNoFile(lines) ==
    /\ Len(lines) >= 7
    /\ SubSeq(lines, 1, 5) = Header(call.modelName)
    /\ lines[Len(lines) - 1] = <<>>
    /\ lines[Len(lines)] = <<"0", "NOFILE">>

\* C10 as claimed: export and exportWithSteps put out exactly one type-1 line per part
\* with a known definition, in the order of the input list, none for unknown parts, and
\* the header and the final `0 NOFILE`.
C10_KnownPartsInInputOrder ==
    (call.fn = "export" /\ ret.done) =>
        /\ PartLinesOf(ret.lines) = KnownParts(call.bricks)
        /\ HeaderAndNoFile(ret.lines)

\* C10 as amended: export and exportWithSteps put out exactly one type-1 line per part
\* with a known definition and none for unknown parts, between the header and the final
\* `0 NOFILE`; export in the order of the input list, exportWithSteps by ascending step
\* index and in the order of the input list within a step.
C10_KnownPartsInExportOrder ==
    (call.fn = "export" /\ ret.done) =>
        /\ ret.fn = "export" => PartLinesOf(ret.lines) = KnownParts(call.bricks)
        /\ ret.fn = "exportWithSteps" =>
              PartLinesOf(ret.lines) = KnownParts(ByStep(call.bricks, 0))
        /\ HeaderAndNoFile(ret.lines)

\* C10 witness: exportWithSteps of a list with an unknown part between two known parts
\* whose step indices descend
C10_Witness ==
    /\ call.fn = "export" /\ ret.done /\ ret.fn = "exportWithSteps"
    /\ Len(call.bricks) = 3
    /\ Known(call.bricks[1].definitionId)
    /\ ~Known(call.bricks[2].definitionId)
    /\ Known(call.bricks[3].definitionId)
    /\ StepOf(call.bricks[1]) > StepOf(call.bricks[3])
    /\ Len(PartLinesOf(ret.lines)) = 2

\* export of a list with an unknown part between two known parts
C10_WitnessExport ==
    /\ call.fn = "export" /\ ret.done /\ ret.fn = "export"
    /\ Len(call.bricks) = 3
    /\ Known(call.bricks[1].definitionId)
    /\ ~Known(call.bricks[2].definitionId)
    /\ Known(call.bricks[3].definitionId)
    /\ Len(PartLinesOf(ret.lines)) = 2

-----------------------------------------------------------------------------
(* SpecExportOne: export of a single part over a range of world positions *)

\* coordinates, in tenths of a millimetre: zero, one brick height, odd and negative
\* values, and every multiple of MaxFine tenths up to it
MaxFine == 3
ExportCoords == {-130, -3 * PLATE_HEIGHT, 0, 45, 3 * PLATE_HEIGHT} \cup (-MaxFine..MaxFine)

InitExportOne ==
    /\ \E x \in ExportCoords, y \in ExportCoords, z \in ExportCoords, yaw \in Range(ExportYaws) :
          call = [fn |-> "exportOne",
                  bricks |-> << [id |-> "a", definitionId |-> "brick_2x4",
                                 position |-> Vec(x, y, z), rotation |-> Vec(0, yaw, 0),
                                 colorId |-> 4] >>,
                  modelName |-> "Untitled"]
    /\ ret = [done |-> FALSE]
    /\ CMIdle
    /\ PlaceIdle
    /\ StoreIdle

CallExportOne ==
    /\ call.fn = "exportOne"
    /\ ~ret.done
    /\ ret' = [done |-> TRUE, fn |-> "export",
               lines |-> export(call.bricks, call.modelName)]
    /\ UNCHANGED call

CallExportOneWithSteps ==
    /\ call.fn = "exportOne"
    /\ ~ret.done
    /\ ret' = [done |-> TRUE, fn |-> "exportWithSteps",
               lines |-> exportWithSteps(call.bricks, call.modelName)]
    /\ UNCHANGED call

NextExportOne ==
    \/ CallExportOne /\ UNCHANGED <<cmVars, placeVars, storeVars>>
    \/ CallExportOneWithSteps /\ UNCHANGED <<cmVars, placeVars, storeVars>>

SpecExportOne == InitExportOne /\ [][NextExportOne]_vars

\* the decimal notation of t quarters of an LDU (a tenth of a millimetre is a quarter
\* of an LDU): no sign on zero, no trailing zeros
QuarterText(t) ==
    (IF t < 0 THEN "-" ELSE "") \o ToString(Abs(t) \div 4)
        \o (CASE Abs(t) % 4 = 0 -> "" [] Abs(t) % 4 = 1 -> ".25"
              [] Abs(t) % 4 = 2 -> ".5" [] Abs(t) % 4 = 3 -> ".75")

\* the one part line of the output of a single known part
OnlyPartLine == SelectSeq(ret.lines, IsPartLine)[1]

\* C11: the three position fields of an exported part are x * 2.5, -(y * 2.5) and
\* z * 2.5 of its world position in millimetres, and zero is written `0`, never `-0`.
C11_PositionScaledAndYNegated ==
    (call.fn = "exportOne" /\ ret.done) =>
        /\ Len(SelectSeq(ret.lines, IsPartLine)) = 1
        /\ OnlyPartLine[3] = QuarterText(call.bricks[1].position.x)
        /\ OnlyPartLine[4] = QuarterText(-call.bricks[1].position.y)
        /\ OnlyPartLine[5] = QuarterText(call.bricks[1].position.z)
        /\ \A k \in 3..5 : OnlyPartLine[k] # "-0"

\* C11 witness: a part one brick height up, at a negative x that is no whole LDU,
\* exports Y = -24
C11_Witness ==
    /\ call.fn = "exportOne" /\ ret.done
    /\ call.bricks[1].position.y = 3 * PLATE_HEIGHT
    /\ call.bricks[1].position.x = -130
    /\ OnlyPartLine[3] = "-32.5"
    /\ OnlyPartLine[4] = "-24"

\* a part at the origin exports 0 0 0
C11_WitnessOrigin ==
    /\ call.fn = "exportOne" /\ ret.done
    /\ call.bricks[1].position = Vec(0, 0, 0)
    /\ SubSeq(OnlyPartLine, 3, 5) = <<"0", "0", "0">>

-----------------------------------------------------------------------------
(* Claims on the step order of exportWithSteps, over SpecExport *)

StepsReturned == call.fn = "export" /\ ret.done /\ ret.fn = "exportWithSteps"

\* the build step of a part as the claims read it: its step index, 0 without one
BuildStep(data) == IF "stepIndex" \in DOMAIN data THEN data.stepIndex ELSE 0

\* the place in the input list of the part a part line was written for (the k-th part
\* of a list has colour k)
InputIndex(line) == CHOOSE k \in DOMAIN call.bricks : ToString(call.bricks[k].colorId) = line[2]

\* the input places of the part lines of the output, in output order
OutputOrder ==
    LET partLines == SelectSeq(ret.lines, IsPartLine)
    IN  [i \in DOMAIN partLines |-> InputIndex(partLines[i])]

\* C12: in the output of exportWithSteps the part lines are in ascending order of build
\* step (0 for a part without a step index), and parts of one step keep their relative
\* order from the input list.
C12_GroupedByAscendingStep ==
    StepsReturned =>
        \A i, j \in DOMAIN OutputOrder :
            i < j =>
                \/ BuildStep(call.bricks[OutputOrder[i]]) < BuildStep(call.bricks[OutputOrder[j]])
                \/ /\ BuildStep(call.bricks[OutputOrder[i]]) = BuildStep(call.bricks[OutputOrder[j]])
                   /\ OutputOrder[i] < OutputOrder[j]

\* C12 witness: three known parts, the first and the last in step 2 and the second
\* without a step index, come out as second, first, third
C12_Witness ==
    /\ StepsReturned
    /\ Len(call.bricks) = 3
    /\ \A k \in 1..3 : Known(call.bricks[k].definitionId)
    /\ BuildStep(call.bricks[1]) = 2
    /\ "stepIndex" \notin DOMAIN call.bricks[2]
    /\ BuildStep(call.bricks[3]) = 2
    /\ OutputOrder = <<2, 1, 3>>

\* the places of the `0 STEP` lines in the output
StepLinePlaces == {i \in DOMAIN ret.lines : ret.lines[i] = <<"0", "STEP">>}

\* the build steps that contribute at least one part line
NonEmptySteps ==
    {BuildStep(call.bricks[k]) : k \in {n \in DOMAIN call.bricks :
                                            Known(call.bricks[n].definitionId)}}

\* C13: in the output of exportWithSteps a `0 STEP` line, with a blank line before and
\* after it, stands exactly between consecutive step groups that contribute a part line
\* and never before the first: there is one less than such groups (none when there are
\* none), also when some groups hold only parts with unknown definitions.
C13_StepBetweenNonEmptyGroups ==
    StepsReturned =>
        /\ Cardinality(StepLinePlaces) =
              IF NonEmptySteps = {} THEN 0 ELSE Cardinality(NonEmptySteps) - 1
        /\ \A i \in StepLinePlaces :
              /\ ret.lines[i - 1] = <<>> /\ ret.lines[i + 1] = <<>>
              /\ \E j \in 1..(i - 1) : IsPartLine(ret.lines[j])
              /\ \E j \in (i + 1)..Len(ret.lines) : IsPartLine(ret.lines[j])

-----------------------------------------------------------------------------
(* core/brick/BrickRegistry: register, get, getAll, getByCategory on the Map *)

\* get's undefined
Undefined == [id |-> "undefined", category |-> "undefined"]

\* the plausible slip: the definition is pushed onto a list
register_Push(defs, definition) == Append(defs, definition)

\* this.definitions.set(definition.id, definition): a new id is appended, a known id
\* keeps its place and takes the new definition
register(defs, definition) ==
    IF \E i \in DOMAIN defs : defs[i].id = definition.id
    THEN [i \in DOMAIN defs |-> IF defs[i].id = definition.id THEN definition ELSE defs[i]]
    ELSE Append(defs, definition)

get(defs, id) ==
    IF \E i \in DOMAIN defs : defs[i].id = id
    THEN defs[CHOOSE i \in DOMAIN defs : defs[i].id = id]
    ELSE Undefined

getAll(defs) == defs

getByCategory(defs, category) ==
    LET InCategory(def) == def.category = category
    IN  SelectSeq(getAll(defs), InCategory)

\* the constructor: registerDefaultBricks registers every row in turn
RECURSIVE RegisterRows(_, _)
RegisterRows(defs, k) ==
    IF k > Len(registerDefaultBricks) THEN defs
    ELSE RegisterRows(register(defs, Create(registerDefaultBricks[k])), k + 1)

-----------------------------------------------------------------------------
(* SpecRegistry: register calls on the constructed catalog, and the three reads *)

\* at most MaxRegister register calls are made, of definitions with the id of a default
\* brick or one of MaxCustomIds new ids
MaxRegister == 2
MaxCustomIds == 1

CustomIds == <<"custom_a", "custom_b", "custom_c", "custom_d">>

RegisterIds == {"brick_1x1"} \cup {CustomIds[k] : k \in 1..MaxCustomIds}

\* the definitions handed to register: small parts of either category
RegisterPool ==
    {[id |-> id, ldrawId |-> "1.dat", category |-> c, shape |-> "box",
      dimensions |-> [width |-> 1, depth |-> 1, height |-> 1], connectionPoints |-> <<>>] :
        id \in RegisterIds, c \in {"basic", "custom"}}

InitRegistry ==
    /\ definitions = RegisterRows(<<>>, 1)
    /\ registerLog = <<>>
    /\ HarnessIdle
    /\ CMIdle
    /\ PlaceIdle
    /\ NotRegistryIdle

Register ==
    /\ Len(registerLog) < MaxRegister
    /\ \E definition \in RegisterPool :
          /\ definitions' = register(definitions, definition)
          /\ registerLog' = Append(registerLog, definition)
    /\ ret' = [done |-> FALSE]
    /\ UNCHANGED call

CallGet ==
    /\ \E id \in RegisterIds \cup {CustomIds[MaxCustomIds + 1], "plate_1x1"} :
          ret' = [done |-> TRUE, fn |-> "get", id |-> id, result |-> get(definitions, id)]
    /\ UNCHANGED <<call, registryVars>>

CallGetAll ==
    /\ ret' = [done |-> TRUE, fn |-> "getAll", result |-> getAll(definitions)]
    /\ UNCHANGED <<call, registryVars>>

CallGetByCategory ==
    /\ \E category \in {"basic", "custom", "round", "none"} :
          ret' = [done |-> TRUE, fn |-> "getByCategory", category |-> category,
                  result |-> getByCategory(definitions, category)]
    /\ UNCHANGED <<call, registryVars>>

NextRegistry ==
    \/ Register /\ UNCHANGED <<cmVars, placeVars, notRegistryVars>>
    \/ CallGet /\ UNCHANGED <<cmVars, placeVars, notRegistryVars>>
    \/ CallGetAll /\ UNCHANGED <<cmVars, placeVars, notRegistryVars>>
    \/ CallGetByCategory /\ UNCHANGED <<cmVars, placeVars, notRegistryVars>>

SpecRegistry == InitRegistry /\ [][NextRegistry]_vars

\* the definitions the constructor registers, in call order
DefaultRegistrations == [k \in DOMAIN registerDefaultBricks |-> Create(registerDefaultBricks[k])]

\* the k-th registration of a log is the first, or the last, of its id
IsFirstOfId(log, k) == \A j \in 1..(k - 1) : log[j].id # log[k].id
IsLastOfId(log, k) == \A j \in (k + 1)..Len(log) : log[j].id # log[k].id

\* one entry per registered id, in order of first registration: the most recently
\* registered definition of that id
ExpectedAll(log) ==
    LET First(k) == IsFirstOfId(log, k)
        firsts == SelectSeq([k \in DOMAIN log |-> k], First)
    IN  [n \in DOMAIN firsts |->
            log[CHOOSE k \in DOMAIN log : IsLastOfId(log, k) /\ log[k].id = log[firsts[n]].id]]

\* what a read must have returned after the registrations of a log
ExpectedRead(log, read) ==
    /\ read.fn = "get" =>
          IF \E k \in DOMAIN log : log[k].id = read.id
          THEN \E k \in DOMAIN log :
                  IsLastOfId(log, k) /\ log[k].id = read.id /\ read.result = log[k]
          ELSE read.result = Undefined
    /\ read.fn = "getAll" => read.result = ExpectedAll(log)
    /\ read.fn = "getByCategory" =>
          LET InCategory(def) == def.category = read.category
          IN  read.result = SelectSeq(ExpectedAll(log), InCategory)

\* C14: after any sequence of register calls get(id) returns the most recently
\* registered definition with that id (undefined when there is none), getAll() has
\* exactly one entry per registered id in order of first registration, and
\* getByCategory(c) is the subsequence of getAll() whose category is c.
C14_RegistryReads ==
    ret.done => ExpectedRead(DefaultRegistrations \o registerLog, ret)

\* C14 witness: a new id was registered twice with different definitions; getAll lists
\* the default bricks first and the new id once, last, with its second definition
C14_Witness ==
    /\ ret.done /\ ret.fn = "getAll"
    /\ Len(registerLog) = 2
    /\ registerLog[1].id = "custom_a" /\ registerLog[2].id = "custom_a"
    /\ registerLog[1] # registerLog[2]
    /\ Len(ret.result) = Len(registerDefaultBricks) + 1
    /\ ret.result[Len(ret.result)] = registerLog[2]

\* a default id was overwritten and get returns the new definition
C14_WitnessOverwrite ==
    /\ ret.done /\ ret.fn = "get" /\ ret.id = "brick_1x1"
    /\ Len(registerLog) > 0
    /\ ret.result = registerLog[Len(registerLog)]

-----------------------------------------------------------------------------
(* SpecCatalog: the definitions of the constructed catalog, read one by one *)

InitCatalog ==
    /\ call \in {[fn |-> "catalog", id |-> id] : id \in CatalogIds}
    /\ ret = [done |-> FALSE]
    /\ CMIdle
    /\ PlaceIdle
    /\ StoreIdle

\* BrickRegistry.get(id)
CallRegistryGet ==
    /\ call.fn = "catalog"
    /\ ~ret.done
    /\ ret' = [done |-> TRUE, fn |-> "get", definition |-> RegistryGet(call.id)]
    /\ UNCHANGED call

\* BrickRegistry.get(id).connectionPoints filtered by type, as the snap detector and
\* the connection manager read them
CallFilterPoints ==
    /\ call.fn = "catalog"
    /\ ~ret.done
    /\ ret' = [done |-> TRUE, fn |-> "filter", definition |-> RegistryGet(call.id),
               studs |-> Studs(RegistryGet(call.id)),
               antiStuds |-> AntiStuds(RegistryGet(call.id))]
    /\ UNCHANGED call

NextCatalog ==
    \/ CallRegistryGet /\ UNCHANGED <<cmVars, placeVars, storeVars>>
    \/ CallFilterPoints /\ UNCHANGED <<cmVars, placeVars, storeVars>>

SpecCatalog == InitCatalog /\ [][NextCatalog]_vars

\* the centres of the grid cells of a w x d footprint, in x and z
GridCells(w, d) ==
    {<<(2 * i + 1 - w) * (STUD_SPACING \div 2), (2 * j + 1 - d) * (STUD_SPACING \div 2)>> :
        i \in 0..(w - 1), j \in 0..(d - 1)}

\* the points of one type of a definition, and where they are in x and z
PointsOfType(def, type) == {k \in DOMAIN def.connectionPoints : def.connectionPoints[k].type = type}
PlacesOf(def, ks) ==
    {<<def.connectionPoints[k].position.x, def.connectionPoints[k].position.z>> : k \in ks}

\* w * d points of the type, one in each grid cell
OnePerCell(def, type) ==
    /\ Cardinality(PointsOfType(def, type)) = def.dimensions.width * def.dimensions.depth
    /\ PlacesOf(def, PointsOfType(def, type)) = GridCells(def.dimensions.width, def.dimensions.depth)

\* one point of the type, at local x = z = 0
OneCentred(def, type) ==
    /\ Cardinality(PointsOfType(def, type)) = 1
    /\ PlacesOf(def, PointsOfType(def, type)) = {<<0, 0>>}

\* C15: every pre-registered definition of category basic with footprint w x d has
\* exactly w * d studs and w * d anti-studs, one per grid cell; every pre-registered
\* round or cone definition has exactly one stud and one anti-stud, both at x = z = 0.
C15_CatalogConnectionPoints ==
    (call.fn = "catalog" /\ ret.done) =>
        /\ ret.definition.category = "basic" =>
              OnePerCell(ret.definition, "stud") /\ OnePerCell(ret.definition, "anti_stud")
        /\ ret.definition.shape \in {"round", "cone"} =>
              OneCentred(ret.definition, "stud") /\ OneCentred(ret.definition, "anti_stud")
        /\ ret.fn = "filter" =>
              /\ Len(ret.studs) = Cardinality(PointsOfType(ret.definition, "stud"))
              /\ Len(ret.antiStuds) = Cardinality(PointsOfType(ret.definition, "anti_stud"))

\* C15 witness: the 4 x 6 plate, with 24 studs and 24 anti-studs
C15_Witness ==
    /\ call.fn = "catalog" /\ ret.done /\ ret.fn = "filter"
    /\ call.id = "plate_4x6"
    /\ ret.definition.category = "basic"
    /\ Len(ret.studs) = 24 /\ Len(ret.antiStuds) = 24

\* the 2 x 2 cone, with its one stud and one anti-stud
C15_WitnessCone ==
    /\ call.fn = "catalog" /\ ret.done /\ ret.fn = "filter"
    /\ call.id = "cone_2x2"
    /\ Len(ret.studs) = 1 /\ Len(ret.antiStuds) = 1

-----------------------------------------------------------------------------
(* core/brick/BrickGeometry: the geometry cache.  A geometry is an object: two are  *)
(* the same object when their serial numbers are equal.                             *)

\* generateBrickGeometry: a new geometry of the definition's shape
generateBrickGeometry(definition, serial) ==
    [definitionId |-> definition.id, shape |-> definition.shape, serial |-> serial]

CacheHas(cache, cacheKey) == \E i \in DOMAIN cache : cache[i].key = cacheKey
CacheGet(cache, cacheKey) == cache[CHOOSE i \in DOMAIN cache : cache[i].key = cacheKey].geometry

\* the plausible slip: the generated geometry is returned but not stored
getGeometry_NoSet(cache, count, definition) ==
    IF CacheHas(cache, definition.id)
    THEN [cache |-> cache, meshCount |-> count, generated |-> FALSE,
          geometry |-> CacheGet(cache, definition.id)]
    ELSE [cache |-> cache, meshCount |-> count + 1, generated |-> TRUE,
          geometry |-> generateBrickGeometry(definition, count + 1)]

\* getGeometry: the cached geometry of the id, else a new one, stored under the id
getGeometry(cache, count, definition) ==
    IF CacheHas(cache, definition.id)
    THEN [cache |-> cache, meshCount |-> count, generated |-> FALSE,
          geometry |-> CacheGet(cache, definition.id)]
    ELSE [cache |-> Append(cache, [key |-> definition.id,
                                   geometry |-> generateBrickGeometry(definition, count + 1)]),
          meshCount |-> count + 1, generated |-> TRUE,
          geometry |-> generateBrickGeometry(definition, count + 1)]

\* clearCache: every geometry is disposed and the Map cleared
clearCache(cache) == <<>>

-----------------------------------------------------------------------------
(* SpecGeometry: getGeometry and clearCache calls in any order *)

\* at most MaxGeometryCalls calls are made
MaxGeometryCalls == 4

GeometryDefs == {"brick_1x1", "slope_45_2x2", "cone_1x1"}

InitGeometry ==
    /\ GeometryIdle
    /\ HarnessIdle
    /\ CMIdle
    /\ PlaceIdle
    /\ NotGeometryIdle

GetGeometry ==
    /\ Len(geometryLog) < MaxGeometryCalls
    /\ \E id \in GeometryDefs :
         \E got \in {getGeometry(geometryCache, meshCount, RegistryGet(id))} :
            /\ geometryCache' = got.cache
            /\ meshCount' = got.meshCount
            /\ geometryLog' = Append(geometryLog,
                                     [op |-> "getGeometry", id |-> id,
                                      geometry |-> got.geometry,
                                      generated |-> got.generated])
    /\ UNCHANGED harnessVars

ClearCache ==
    /\ Len(geometryLog) < MaxGeometryCalls
    /\ geometryCache' = clearCache(geometryCache)
    /\ geometryLog' = Append(geometryLog, [op |-> "clearCache"])
    /\ UNCHANGED <<harnessVars, meshCount>>

NextGeometry ==
    \/ GetGeometry /\ UNCHANGED <<cmVars, placeVars, notGeometryVars>>
    \/ ClearCache /\ UNCHANGED <<cmVars, placeVars, notGeometryVars>>

SpecGeometry == InitGeometry /\ [][NextGeometry]_vars

\* no clearCache was called from call i to call j of the log
NoClearBetween(i, j) == \A k \in i..j : geometryLog[k].op # "clearCache"

\* call j is a getGeometry that no earlier getGeometry for the same id precedes since
\* the last clearCache
FirstSinceClear(j) ==
    /\ geometryLog[j].op = "getGeometry"
    /\ \A i \in 1..(j - 1) :
          (geometryLog[i].op = "getGeometry" /\ geometryLog[i].id = geometryLog[j].id)
              => ~NoClearBetween(i, j)

\* C16: between two clearCache calls the geometry of a definition id is generated at
\* most once and every getGeometry for the id returns that same geometry; after
\* clearCache the cache is empty, and the next getGeometry for any id generates a new
\* geometry.
C16_CacheAppendOnlyUntilClear ==
    /\ \A i, j \in DOMAIN geometryLog :
          (/\ i < j
           /\ geometryLog[i].op = "getGeometry" /\ geometryLog[j].op = "getGeometry"
           /\ geometryLog[i].id = geometryLog[j].id
           /\ NoClearBetween(i, j))
              => /\ geometryLog[j].geometry = geometryLog[i].geometry
                 /\ ~geometryLog[j].generated
    /\ \A j \in DOMAIN geometryLog :
          FirstSinceClear(j)
              => /\ geometryLog[j].generated
                 /\ geometryLog[j].geometry.definitionId = geometryLog[j].id
                 /\ \A i \in 1..(j - 1) :
                       geometryLog[i].op = "getGeometry"
                           => geometryLog[i].geometry # geometryLog[j].geometry
    /\ (geometryLog # <<>> /\ geometryLog[Len(geometryLog)].op = "clearCache")
          => geometryCache = <<>>

\* C16 witness: getGeometry twice for one id, clearCache, getGeometry for the id again
C16_Witness ==
    /\ Len(geometryLog) = 4
    /\ geometryLog[1].op = "getGeometry" /\ geometryLog[2].op = "getGeometry"
    /\ geometryLog[3].op = "clearCache" /\ geometryLog[4].op = "getGeometry"
    /\ geometryLog[1].id = geometryLog[2].id /\ geometryLog[2].id = geometryLog[4].id
    /\ geometryLog[2].geometry = geometryLog[1].geometry
    /\ geometryLog[4].geometry # geometryLog[1].geometry

-----------------------------------------------------------------------------
(* StorageService.importFromJSON and the import handler of SaveLoadDialog.  A    *)
(* JSON text is whether it parses and the value it parses to; a value carries its *)
(* type, an object the record of the properties it has.                           *)

JSUndefined == [type |-> "undefined"]
JSNull == [type |-> "null"]
JSNumber(n) == [type |-> "number", n |-> n]
JSString(s) == [type |-> "string", s |-> s]
JSArray(items) == [type |-> "array", items |-> items]
JSObject(fields) == [type |-> "object", fields |-> fields]

\* data.key throws a TypeError when data is null
PropertyThrows(data) == data.type \in {"null", "undefined"}

\* data.key otherwise: the property of an object that has it, else undefined
Property(data, key) ==
    IF data.type = "object" /\ key \in DOMAIN data.fields THEN data.fields[key]
    ELSE JSUndefined

\* !value is false
Truthy(value) ==
    CASE value.type \in {"undefined", "null"} -> FALSE
      [] value.type = "number" -> value.n # 0
      [] value.type = "string" -> value.s # ""
      [] OTHER -> TRUE

\* Array.isArray
IsArray(value) == value.type = "array"

\* the check of the required fields passes
IsValidProject_NameOnly(data) == Truthy(Property(data, "name"))

IsValidProject(data) == Truthy(Property(data, "name")) /\ IsArray(Property(data, "bricks"))

\* generateId: an id no project has had
generateId(count) == "project_" \o ToString(count + 1)

\* the properties copied into the project that have a value
ProjectOptional(data) ==
    (IF "description" \in DOMAIN data.fields
     THEN [description |-> data.fields.description] ELSE <<>>)
        @@ (IF "thumbnail" \in DOMAIN data.fields
            THEN [thumbnail |-> data.fields.thumbnail] ELSE <<>>)

\* the project importFromJSON builds of valid data
ImportedProject(data, count, now) ==
    [id |-> generateId(count), name |-> Property(data, "name"), createdAt |-> now,
     updatedAt |-> now, bricks |-> Property(data, "bricks")] @@ ProjectOptional(data)

\* saveProject: store.put under the key path id
saveProject(projs, project) == MapSet(projs, project)

\* importFromJSON: the promise rejects when the text does not parse, when the parsed
\* data is null, when the check of the required fields fails and when the database
\* fails; otherwise the project is stored and returned
importFromJSON(projs, count, jsonString, now, dbOk) ==
    IF ~jsonString.syntaxOk \/ PropertyThrows(jsonString.value)
    THEN [rejected |-> TRUE, projects |-> projs, projectCount |-> count]
    ELSE IF ~IsValidProject(jsonString.value)
    THEN [rejected |-> TRUE, projects |-> projs, projectCount |-> count]
    ELSE IF ~dbOk
    THEN [rejected |-> TRUE, projects |-> projs, projectCount |-> count + 1]
    ELSE [rejected |-> FALSE,
          projects |-> saveProject(projs, ImportedProject(jsonString.value, count, now)),
          projectCount |-> count + 1,
          project |-> ImportedProject(jsonString.value, count, now)]

\* importScene(project.bricks) throws on bricks that cannot be iterated and on a
\* record that is null
ImportSceneThrows(value) ==
    \/ ~IsArray(value)
    \/ \E i \in DOMAIN value.items : PropertyThrows(value.items[i])

\* the records of the bricks of a project
BrickDataOf(items) == [i \in DOMAIN items |-> items[i].fields]

-----------------------------------------------------------------------------
(* SpecImport: JSON files imported through the dialog, one after the other *)

\* at most MaxImports files are imported, with at most MaxImportBricks bricks each
MaxImports == 2
MaxImportBricks == 2

ImportedRecords ==
    <<[id |-> "a", definitionId |-> "brick_2x4", position |-> Vec(0, 0, 0),
       rotation |-> Vec(0, 0, 0), colorId |-> 4],
      [id |-> "b", definitionId |-> "brick_1x2", position |-> Vec(0, 96, 0),
       rotation |-> Vec(0, 90, 0), colorId |-> 1, stepIndex |-> 1],
      [id |-> "c", definitionId |-> "plate_2x2", position |-> Vec(160, 0, 0),
       rotation |-> Vec(0, 0, 0), colorId |-> 2],
      [id |-> "d", definitionId |-> "brick_1x1", position |-> Vec(0, 0, 160),
       rotation |-> Vec(0, 0, 0), colorId |-> 3]>>

\* the values of the name property, and the object without it
ImportNames == {<<>>, [name |-> JSNull], [name |-> JSString("")], [name |-> JSString("castle")]}

\* the values of the bricks property, and the object without it
ImportBricks ==
    {<<>>, [bricks |-> JSNull], [bricks |-> JSString("none")],
     [bricks |-> JSObject([a |-> JSNumber(1)])], [bricks |-> JSArray(<<JSNull>>)]}
        \cup {[bricks |-> JSArray([i \in 1..n |-> JSObject(ImportedRecords[i])])] :
                n \in 0..MaxImportBricks}

\* the texts of the files: one that does not parse, ones of values that are not
\* objects, and objects with and without the required properties
ImportTexts ==
    {[syntaxOk |-> FALSE]}
        \cup {[syntaxOk |-> TRUE, value |-> v] : v \in {JSNull, JSNumber(5), JSArray(<<>>)}}
        \cup {[syntaxOk |-> TRUE, value |-> JSObject(n @@ b)] :
                n \in ImportNames, b \in ImportBricks}

InitImport ==
    /\ call = [fn |-> "handleImportJSON"]
    /\ ret = [done |-> FALSE]
    /\ CMIdle
    /\ PlaceIdle
    /\ StoreIdle

\* the store after the import handler got the result r of importFromJSON
AfterImport(st, r) ==
    IF r.rejected \/ ImportSceneThrows(r.project.bricks) THEN st
    ELSE importScene(st, BrickDataOf(r.project.bricks.items))

\* input.onchange of handleImportJSON with a file of the text: importFromJSON, then
\* importScene of the bricks of the project; any error ends the handler with the
\* error message set
HandleImportJSON ==
    /\ projectCount < MaxImports
    /\ \E text \in ImportTexts, dbOk \in BOOLEAN :
         \E r \in {importFromJSON(projects, projectCount, text, projectCount + 1, dbOk)} :
           \E st \in {AfterImport(SceneNow, r)} :
              /\ call' = [fn |-> "handleImportJSON", text |-> text, dbOk |-> dbOk]
              /\ projects' = r.projects
              /\ projectCount' = r.projectCount
              /\ bricks' = st.bricks
              /\ sceneConnections' = st.connections
              /\ selectedBrickIds' = st.selectedBrickIds
              /\ history' = st.history
              /\ historyIndex' = st.historyIndex
              /\ ret' = [done |-> TRUE, rejected |-> r.rejected,
                         error |-> (r.rejected \/ ImportSceneThrows(r.project.bricks))]
    /\ UNCHANGED <<ghostRotationY, ghostRotationYRef, meshPosition, hasCollision>>

NextImport ==
    \/ HandleImportJSON /\ UNCHANGED <<cmVars, registryVars, geometryVars, renderVars>>

SpecImport == InitImport /\ [][NextImport]_vars

\* the snapshot is malformed: the text is not valid JSON, the parsed data has no
\* name, or its bricks field is not a list
Malformed(text) ==
    \/ ~text.syntaxOk
    \/ text.value.type # "object"
    \/ "name" \notin DOMAIN text.value.fields
    \/ text.value.fields.name \in {JSNull, JSString("")}
    \/ "bricks" \notin DOMAIN text.value.fields
    \/ text.value.fields.bricks.type # "array"

\* C17: importFromJSON fails as a whole on a malformed snapshot: when the text is not
\* valid JSON, the parsed data has no name or its bricks field is not a list, the
\* operation rejects with an error, no project is saved to storage and no brick of
\* the snapshot is imported.
C17_MalformedImportFailsAsAWhole ==
    [][Malformed(call'.text)
          => /\ ret'.rejected /\ ret'.error
             /\ projects' = projects
             /\ bricks' = bricks
             /\ UNCHANGED sceneVars]_vars

\* C17 witness: a snapshot with two bricks was imported, and then a snapshot whose
\* bricks field is not a list was rejected: the project and the bricks are still there
C17_Witness ==
    /\ ret.done /\ ret.rejected
    /\ call.text.syntaxOk /\ call.text.value.type = "object"
    /\ "name" \in DOMAIN call.text.value.fields
    /\ call.text.value.fields.name = JSString("castle")
    /\ "bricks" \in DOMAIN call.text.value.fields
    /\ call.text.value.fields.bricks.type = "object"
    /\ Len(projects) = 1
    /\ Len(bricks) = 2

-----------------------------------------------------------------------------
(* SpecScene: the operations of useSceneStore in any order.  No operation of the  *)
(* store puts a connection into its connection map, so the specification starts   *)
(* from the constructed store and from stores whose map was set from outside      *)
(* (setState) to connections between the bricks of an imported scene.             *)

\* at most MaxSceneOps operations are called
MaxSceneOps == 3

\* a Connection of the scene's map
SceneConnection(id, brick1Id, brick2Id) ==
    [id |-> id, type |-> "stud", brick1Id |-> brick1Id, brick2Id |-> brick2Id,
     point1Index |-> 0, point2Index |-> 1, isRigid |-> TRUE]

\* the connection maps set from outside
SceneConnectionMaps ==
    {<<SceneConnection("c1", "a", "b")>>,
     <<SceneConnection("c1", "a", "b"), SceneConnection("c2", "c", "b")>>,
     <<SceneConnection("c1", "a", "b"), SceneConnection("c2", "b", "a"),
       SceneConnection("c3", "a", "c")>>}

\* the store as constructed
SceneConstructed == SceneState(<<>>, <<>>, <<>>, <<>>, -1)

\* the stores the specification starts from
SceneInits ==
    {SceneConstructed}
        \cup {[importScene(SceneConstructed, SubSeq(ImportedRecords, 1, 3))
                  EXCEPT !.connections = c] : c \in SceneConnectionMaps}

\* the ids of the bricks of the store and of its history
UsedIds(st) ==
    {st.bricks[i].id : i \in DOMAIN st.bricks}
        \cup UNION {{st.history[h].bricks[i].id : i \in DOMAIN st.history[h].bricks} :
                      h \in DOMAIN st.history}

\* uuid(): an id that is not in use
FreshIds(st) ==
    {BrickIds[k] : k \in {j \in DOMAIN BrickIds :
                            /\ BrickIds[j] \notin UsedIds(st)
                            /\ \A i \in 1..(j - 1) : BrickIds[i] \in UsedIds(st)}}

\* the definitions, positions and colours of the bricks added
AddChoices ==
    {[definitionId |-> "brick_2x4", position |-> Vec(0, 0, 0), colorId |-> 4],
     [definitionId |-> "brick_1x2", position |-> Vec(0, 96, 0), colorId |-> 1]}

\* the lists handed to importScene besides the export of the scene: records with and
\* without step index and group id, and two records with one id
ImportLists ==
    {<<>>,
     SubSeq(ImportedRecords, 1, 2),
     <<ImportedRecords[2], ImportedRecords[1],
       [ImportedRecords[3] EXCEPT !.id = "b"] @@ [groupId |-> "g"]>>}

InitScene ==
    /\ call = [fn |-> "none", n |-> 0]
    /\ ret = [done |-> FALSE]
    /\ CMIdle
    /\ ghostRotationY = 0 /\ ghostRotationYRef = 0
    /\ meshPosition = Vec(0, 0, 0) /\ hasCollision = FALSE
    /\ NotSceneIdle
    /\ \E st \in SceneInits :
         /\ bricks = st.bricks
         /\ sceneConnections = st.connections
         /\ selectedBrickIds = st.selectedBrickIds
         /\ history = st.history
         /\ historyIndex = st.historyIndex

\* the store becomes st
SceneBecomes(st) ==
    /\ bricks' = st.bricks
    /\ sceneConnections' = st.connections
    /\ selectedBrickIds' = st.selectedBrickIds
    /\ history' = st.history
    /\ historyIndex' = st.historyIndex
    /\ UNCHANGED <<ghostRotationY, ghostRotationYRef, meshPosition, hasCollision>>

AddBrick ==
    /\ call.n < MaxSceneOps
    /\ \E id \in FreshIds(SceneNow), c \in AddChoices :
         /\ call' = [fn |-> "addBrick", n |-> call.n + 1, id |-> id]
         /\ ret' = [done |-> TRUE, id |-> id]
         /\ SceneBecomes(addBrick(SceneNow, id, c.definitionId, c.position, c.colorId,
                                  Vec(0, 0, 0)))

\* removeBrick of the id of a brick, or of an id no brick has
RemoveBrick ==
    /\ call.n < MaxSceneOps
    /\ \E id \in {bricks[i].id : i \in DOMAIN bricks} \cup {"none"} :
         /\ call' = [fn |-> "removeBrick", n |-> call.n + 1, id |-> id]
         /\ ret' = [done |-> TRUE,
                    wasSelected |-> (\E k \in DOMAIN selectedBrickIds : selectedBrickIds[k] = id),
                    connectionsBefore |-> Len(sceneConnections)]
         /\ SceneBecomes(removeBrick(SceneNow, id))

SelectBrick ==
    /\ call.n < MaxSceneOps
    /\ \E id \in {bricks[i].id : i \in DOMAIN bricks} \cup {"none"}, additive \in BOOLEAN :
         /\ call' = [fn |-> "selectBrick", n |-> call.n + 1, id |-> id, additive |-> additive]
         /\ ret' = [done |-> TRUE]
         /\ SceneBecomes(selectBrick(SceneNow, id, additive))

\* importScene of a list
ImportScene ==
    /\ call.n < MaxSceneOps
    /\ \E data \in ImportLists :
         /\ call' = [fn |-> "importScene", n |-> call.n + 1, data |-> data,
                     roundTrip |-> FALSE]
         /\ ret' = [done |-> TRUE]
         /\ SceneBecomes(importScene(SceneNow, data))

\* importScene(exportScene())
ExportImport ==
    /\ call.n < MaxSceneOps
    /\ \E data \in {exportScene(SceneNow)} :
         /\ call' = [fn |-> "importScene", n |-> call.n + 1, data |-> data,
                     roundTrip |-> TRUE, before |-> bricks]
         /\ ret' = [done |-> TRUE]
         /\ SceneBecomes(importScene(SceneNow, data))

NextScene ==
    \/ AddBrick /\ UNCHANGED <<cmVars, notSceneVars>>
    \/ RemoveBrick /\ UNCHANGED <<cmVars, notSceneVars>>
    \/ SelectBrick /\ UNCHANGED <<cmVars, notSceneVars>>
    \/ ImportScene /\ UNCHANGED <<cmVars, notSceneVars>>
    \/ ExportImport /\ UNCHANGED <<cmVars, notSceneVars>>

SpecScene == InitScene /\ [][NextScene]_vars

\* the fields of a brick that are not persisted
RuntimeFields == {"isSelected", "isLocked", "isGhost", "isStatic", "connections"}

\* the persisted fields of a brick: id, definition id, position, rotation, color and,
\* where the brick has them, step index and group id
Persisted(brick) == [f \in (DOMAIN brick) \ RuntimeFields |-> brick[f]]

\* the record of the list a brick was built of: the last one with its id
IsRecordOf(data, k, id) ==
    /\ data[k].id = id
    /\ \A j \in DOMAIN data : data[j].id = id => j <= k

\* C18: importScene resets all runtime-only state: after importScene(data), whatever
\* the scene state was, every brick has isSelected, isLocked, isGhost and isStatic
\* false and an empty connections list, the connection map and the selection list are
\* empty, and each brick's id, definition id, position, rotation, color, step index
\* and group id equal those of its record; importScene(exportScene()) preserves
\* exactly those fields of every brick.
C18_ImportResetsRuntimeState ==
    call.fn = "importScene"
       => /\ \A i \in DOMAIN bricks :
                /\ ~bricks[i].isSelected /\ ~bricks[i].isLocked
                /\ ~bricks[i].isGhost /\ ~bricks[i].isStatic
                /\ bricks[i].connections = <<>>
                /\ \E k \in DOMAIN call.data :
                      /\ IsRecordOf(call.data, k, bricks[i].id)
                      /\ Persisted(bricks[i]) = call.data[k]
          /\ \A k \in DOMAIN call.data : MapHas(bricks, call.data[k].id)
          /\ sceneConnections = <<>>
          /\ selectedBrickIds = <<>>
          /\ call.roundTrip
                => /\ Len(bricks) = Len(call.before)
                   /\ \A i \in DOMAIN bricks : Persisted(bricks[i]) = Persisted(call.before[i])

\* C18 witness: importScene(exportScene()) of a scene with connections, a selected
\* brick and a brick with a step index
C18_Witness ==
    /\ call.fn = "importScene" /\ call.roundTrip
    /\ \E i \in DOMAIN call.before : call.before[i].isSelected
    /\ \E i \in DOMAIN bricks : "stepIndex" \in DOMAIN bricks[i]
    /\ Len(bricks) = 3
    /\ Len(history) = 1 /\ history[1].connections = <<>>

\* C18 witness: importScene of a list with two records of one id: the brick is
\* built of the last of them
C18_WitnessList ==
    /\ call.fn = "importScene" /\ ~call.roundTrip
    /\ Len(call.data) = 3 /\ Len(bricks) = 2
    /\ \E i \in DOMAIN bricks :
          /\ bricks[i].id = "b"
          /\ "groupId" \in DOMAIN bricks[i] /\ "stepIndex" \notin DOMAIN bricks[i]
    /\ history[1].bricks # <<>>

\* the ids of the selection list
SelectedSet(ids) == {ids[k] : k \in DOMAIN ids}

\* the connection is one of the brick
References(conn, id) == conn.brick1Id = id \/ conn.brick2Id = id

\* the members of a map or list
Members(map) == {map[i] : i \in DOMAIN map}

\* C19: after removeBrick(id) the brick id is absent from the brick map and from
\* selectedBrickIds and no connection of the scene's connection map has id as
\* brick1Id or brick2Id; all other bricks, the rest of the selection and all
\* connections not referencing id are unchanged.
C19_RemoveBrickCascades ==
    [][call'.fn = "removeBrick"
          => /\ ~MapHas(bricks', call'.id)
             /\ call'.id \notin SelectedSet(selectedBrickIds')
             /\ \A conn \in Members(sceneConnections') : ~References(conn, call'.id)
             /\ Members(bricks') = {b \in Members(bricks) : b.id # call'.id}
             /\ SelectedSet(selectedBrickIds') = SelectedSet(selectedBrickIds) \ {call'.id}
             /\ Members(sceneConnections')
                   = {conn \in Members(sceneConnections) : ~References(conn, call'.id)}]_vars

\* C19 witness: a selected brick with connections as brick1Id and as brick2Id was
\* removed from a scene with a third connection, which is still there
C19_Witness ==
    /\ call.fn = "removeBrick" /\ call.id = "b"
    /\ ret.wasSelected
    /\ ret.connectionsBefore = 3
    /\ Len(sceneConnections) = 1
    /\ Len(bricks) = 2
    /\ history[Len(history)].connections = sceneConnections

-----------------------------------------------------------------------------
(* SpecRender: PhysicsBrickScene over the scene store.  A change of the store's   *)
(* brick map makes the component render: the render computes the memoized         *)
(* groundedBricks, and the effect that rebuilds the connections of the manager    *)
(* runs after the render, before the next one.                                    *)

\* at most MaxRenderOps bricks are added or removed
MaxRenderOps == 3

\* where bricks are added: on the ground and on top of one another
RenderPositions == {Vec(x, y * 3 * PLATE_HEIGHT, 0) : x \in {0, 2 * STUD_SPACING * 10}, y \in 0..2}

\* the place is free, and on the ground or on top of a brick
CanAddAt(brickMap, position) ==
    /\ \A i \in DOMAIN brickMap : brickMap[i].position # position
    /\ \/ position.y = 0
       \/ \E i \in DOMAIN brickMap :
             brickMap[i].position = [position EXCEPT !.y = position.y - 3 * PLATE_HEIGHT]

\* the useMemo of groundedBricks: the ids of the bricks isGrounded holds for
GroundedSet(conns, brickMap) ==
    {brickMap[i].id : i \in {k \in DOMAIN brickMap : isGrounded(conns, brickMap[k].id, brickMap)}}

InitRender ==
    /\ call = [fn |-> "none", n |-> 0]
    /\ ret = [done |-> FALSE]
    /\ CMIdle
    /\ PlaceIdle
    /\ StoreIdle

\* addBrick of the store
RenderAddBrick ==
    /\ call.n < MaxRenderOps
    /\ \E id \in FreshIds(SceneNow), position \in RenderPositions :
         /\ CanAddAt(bricks, position)
         /\ call' = [fn |-> "addBrick", n |-> call.n + 1, id |-> id]
         /\ SceneBecomes(addBrick(SceneNow, id, "brick_2x2", position, selectedColorId,
                                  Vec(0, 0, 0)))
    /\ UNCHANGED <<ret, cmVars, notSceneVars>>

\* removeBrick of the store
RenderRemoveBrick ==
    /\ call.n < MaxRenderOps
    /\ \E i \in DOMAIN bricks :
         /\ call' = [fn |-> "removeBrick", n |-> call.n + 1, id |-> bricks[i].id]
         /\ SceneBecomes(removeBrick(SceneNow, bricks[i].id))
    /\ UNCHANGED <<ret, cmVars, notSceneVars>>

\* a render of PhysicsBrickScene with a new brick map: useMemo computes groundedBricks
\* of it with the connections the manager holds; the effect is scheduled
Render ==
    /\ pc = "idle"
    /\ bricks # renderedBricks
    /\ renderedBricks' = bricks
    /\ groundedBricks' = GroundedSet(connections, bricks)
    /\ memoConnections' = connections
    /\ pc' = "effect"
    /\ UNCHANGED <<harnessVars, parts, connections, uuidCount, placeVars>>
    /\ UNCHANGED notRenderVars

\* the effect of the render: connectionManager.clear(), then findConnections and
\* createConnections for each brick of the rendered map
RebuildEffect ==
    /\ pc = "effect"
    /\ \E made \in {RebuildLoop(renderedBricks, 1, <<>>, uuidCount)} :
         /\ connections' = made.connections
         /\ uuidCount' = made.uuidCount
    /\ pc' = "idle"
    /\ UNCHANGED <<harnessVars, parts, placeVars, storeVars>>

NextRender ==
    \/ RenderAddBrick
    \/ RenderRemoveBrick
    \/ Render
    \/ RebuildEffect

SpecRender == InitRender /\ [][NextRender]_vars

\* a connection without its id
Link(conn) ==
    [brick1Id |-> conn.brick1Id, brick2Id |-> conn.brick2Id,
     point1Index |-> conn.point1Index, point2Index |-> conn.point2Index]

Links(conns) == {Link(conns[i]) : i \in DOMAIN conns}

\* C20: after any change of the scene's brick set, the groundedness computed for the
\* new brick set is evaluated against the connection set recomputed from that same
\* brick set, never against the connections of the previous set: the connections
\* isGrounded read are those of the rebuild from the bricks groundedBricks is of, and
\* groundedBricks is the groundedness under them.
C20_GroundedAgainstRebuiltConnections ==
    /\ Links(memoConnections) = Links(RebuildLoop(renderedBricks, 1, <<>>, 0).connections)
    /\ groundedBricks
          = GroundedSet(RebuildLoop(renderedBricks, 1, <<>>, 0).connections, renderedBricks)

-----------------------------------------------------------------------------
(* SpecLattice: a box part placed where snapToGridWithDimensions puts it *)

\* footprints of up to MaxLatticeStuds by MaxLatticeStuds studs, pointer positions
\* within MaxLatticeCoord tenths of a millimetre of the origin in x
MaxLatticeStuds == 3
MaxLatticeCoord == 45

\* the yaws: multiples of a quarter turn, negative and beyond a full turn included
LatticeYaws == {k * QUARTER_TURN : k \in -2..5}

LatticePositions ==
    {Vec(x, y, z) : x \in -MaxLatticeCoord..MaxLatticeCoord,
                    y \in {0, PLATE_HEIGHT + 1},
                    z \in {-(STUD_SPACING \div 2), -1, STUD_SPACING \div 2 - 1, 3 * STUD_SPACING}}

InitLattice ==
    /\ call \in {[fn |-> "lattice", position |-> p, widthStuds |-> w, depthStuds |-> d,
                  rotationY |-> yaw] :
                    p \in LatticePositions, w \in 1..MaxLatticeStuds,
                    d \in 1..MaxLatticeStuds, yaw \in LatticeYaws}
    /\ ret = [done |-> FALSE]
    /\ CMIdle
    /\ PlaceIdle
    /\ StoreIdle

\* the part of the footprint at the position and with the yaw
LatticeBrick(position, rotationY) ==
    [id |-> "a", definitionId |-> "box", position |-> position,
     rotation |-> Vec(0, rotationY, 0)]

\* snapToGridWithDimensions, then getConnectionWorldPosition of every connection
\* point of the part placed at the result
CallSnapAndPlace ==
    /\ call.fn = "lattice"
    /\ ~ret.done
    /\ \E position \in {snapToGridWithDimensions(call.position, call.widthStuds,
                                                 call.depthStuds, call.rotationY)} :
         ret' = [done |-> TRUE, position |-> position,
                 points |-> WorldPositions(
                                LatticeBrick(position, call.rotationY),
                                createBasicBrick("box", "box.dat", call.widthStuds,
                                                 call.depthStuds, 3).connectionPoints)]
    /\ UNCHANGED call

NextLattice ==
    \/ CallSnapAndPlace /\ UNCHANGED <<cmVars, placeVars, storeVars>>

SpecLattice == InitLattice /\ [][NextLattice]_vars

\* C21: for every box part of any footprint placed at a position returned by
\* snapToGridWithDimensions with a yaw that is a multiple of 90 degrees, the world X
\* and Z of all its studs and anti-studs are multiples of the 8 mm stud spacing,
\* whether width and depth are odd or even.
C21_StudsOnUniversalLattice ==
    (call.fn = "lattice" /\ ret.done)
       => /\ Len(ret.points) = 2 * call.widthStuds * call.depthStuds
          /\ \A i \in DOMAIN ret.points :
                /\ ret.points[i].x % STUD_SPACING = 0
                /\ ret.points[i].z % STUD_SPACING = 0

\* C21 witness: a part of odd width and even depth turned by three quarters, snapped
\* from a point off the grid
C21_Witness ==
    /\ call.fn = "lattice" /\ ret.done
    /\ call.widthStuds = 3 /\ call.depthStuds = 2
    /\ call.rotationY = 3 * QUARTER_TURN
    /\ ret.position.x # call.position.x /\ ret.position.z # call.position.z
    /\ ret.position.x % STUD_SPACING = STUD_SPACING \div 2
    /\ ret.position.z % STUD_SPACING = 0

\* C21 witness: the same footprint not turned has its centre offset on the other axis
C21_WitnessStraight ==
    /\ call.fn = "lattice" /\ ret.done
    /\ call.widthStuds = 3 /\ call.depthStuds = 2
    /\ call.rotationY = 0
    /\ ret.position.x % STUD_SPACING = 0
    /\ ret.position.z % STUD_SPACING = STUD_SPACING \div 2

-----------------------------------------------------------------------------
(* SpecSnap: the Y gate and the choice of findSnapPosition *)

\* C22: whenever findSnapPosition returns isValid = true, from the top-placement or
\* the bottom-placement pass, the returned position's Y differs from the rough
\* position's Y by at most one stud height (1.6 mm).
C22_ValidSnapWithinOneStudHeight ==
    (SnapReturned /\ ret.result.isValid)
       => Abs(ret.result.position.y - call.roughPosition.y) <= STUD_HEIGHT

\* C22 witness: a top snap whose Y is exactly one stud height above the rough
\* position's
C22_Witness ==
    /\ SnapReturned /\ ret.result.isValid
    /\ ret.result.connectionType = "top"
    /\ ret.result.position.y - call.roughPosition.y = STUD_HEIGHT

\* C22 witness: a bottom snap whose Y is exactly one stud height below the rough
\* position's
C22_WitnessBottom ==
    /\ SnapReturned /\ ret.result.isValid
    /\ ret.result.connectionType = "bottom"
    /\ call.roughPosition.y - ret.result.position.y = STUD_HEIGHT

\* C22 witness: one step beyond the gate, with studs in horizontal reach, nothing is
\* returned
C22_WitnessBeyond ==
    /\ SnapReturned /\ ~ret.result.isValid
    /\ call.roughPosition.y = STUD_HEIGHT + 1
    /\ Len(call.existingBricks) = 2
    /\ call.existingBricks[1].id = "e1"
    /\ call.roughPosition.x = 0 /\ call.roughPosition.z = 0

\* the places findSnapPosition considers for the call c: for every existing brick,
\* every stud of it and every anti-stud of the new part the place that puts the
\* anti-stud on the stud (top), and for every anti-stud of it and every stud of the
\* new part the place that puts the stud one stud height into the anti-stud (bottom)
SnapCandidates(c) ==
    {[connectionType |-> "top", connectedBrickId |-> c.existingBricks[i].id,
      position |-> Vec(s.x - rotatePointY(p.position.x, p.position.z, c.rotationY).x,
                       s.y - p.position.y,
                       s.z - rotatePointY(p.position.x, p.position.z, c.rotationY).z)] :
        <<i, s, p>> \in
           {t \in (DOMAIN c.existingBricks) \X Range(AllStudPositions(c.existingBricks))
                     \X Range(AntiStuds(RegistryGet(c.definitionId))) :
               t[2] \in Range(getBrickStudPositions(c.existingBricks[t[1]]))}}
    \cup
    {[connectionType |-> "bottom", connectedBrickId |-> c.existingBricks[i].id,
      position |-> Vec(s.x - rotatePointY(p.position.x, p.position.z, c.rotationY).x,
                       s.y - p.position.y - STUD_HEIGHT,
                       s.z - rotatePointY(p.position.x, p.position.z, c.rotationY).z)] :
        <<i, s, p>> \in
           {t \in (DOMAIN c.existingBricks)
                     \X (UNION {Range(getBrickAntiStudPositions(c.existingBricks[k])) :
                                  k \in DOMAIN c.existingBricks})
                     \X Range(Studs(RegistryGet(c.definitionId))) :
               t[2] \in Range(getBrickAntiStudPositions(c.existingBricks[t[1]]))}}

\* the square of the horizontal distance of a place to the rough position
HorizontalSq(c, position) ==
    (position.x - c.roughPosition.x) * (position.x - c.roughPosition.x)
        + (position.z - c.roughPosition.z) * (position.z - c.roughPosition.z)

\* the candidate passes the Y gate, lies strictly within snapDistance horizontally and,
\* if it is a top candidate, passes the alignment check
Qualifies(c, cand) ==
    /\ Abs(cand.position.y - c.roughPosition.y) <= STUD_HEIGHT
    /\ HorizontalSq(c, cand.position) < c.snapDistance * c.snapDistance
    /\ cand.connectionType = "top"
          => checkAllStudsAlign(RegistryGet(c.definitionId), cand.position,
                                c.existingBricks, c.rotationY)

\* a stud (top) or anti-stud (bottom) of the existing part coincides in X and Z with
\* an anti-stud (top) or stud (bottom) of the new part at the position
Coincide(c, r) ==
    \E i \in DOMAIN c.existingBricks :
       /\ c.existingBricks[i].id = r.connectedBrickId
       /\ \E s \in Range(IF r.connectionType = "top"
                         THEN getBrickStudPositions(c.existingBricks[i])
                         ELSE getBrickAntiStudPositions(c.existingBricks[i])) :
            \E p \in Range(WorldPositions(
                              [position |-> r.position, rotation |-> Vec(0, c.rotationY, 0)],
                              IF r.connectionType = "top"
                              THEN AntiStuds(RegistryGet(c.definitionId))
                              ELSE Studs(RegistryGet(c.definitionId)))) :
               p.x = s.x /\ p.z = s.z

\* the result r of the call c is the choice among the qualifying candidates
ChosenAmong(c, r, qualifying) ==
    /\ r.isValid <=> qualifying # {}
    /\ r.isValid
          => /\ \E cand \in qualifying :
                   /\ cand.position = r.position
                   /\ cand.connectedBrickId = r.connectedBrickId
                   /\ cand.connectionType = r.connectionType
             /\ \A cand \in qualifying :
                   HorizontalSq(c, r.position) <= HorizontalSq(c, cand.position)
             /\ Coincide(c, r)

\* C23: findSnapPosition returns, among all candidates of both passes that pass the Y
\* gate, lie strictly within snapDistance horizontally and (for top candidates) pass
\* the alignment check, one with the smallest horizontal distance to the rough
\* position; isValid is true exactly when there is such a candidate, and the returned
\* connectedBrickId is an existing part one of whose studs (top) or anti-studs
\* (bottom) coincides in X/Z with a connection point of the new part at the returned
\* position.
C23_ClosestQualifyingCandidate ==
    SnapReturned
       => ChosenAmong(call, ret.result, {cand \in SnapCandidates(call) : Qualifies(call, cand)})

\* C23 witness: top candidates at different distances qualify, another one within
\* reach fails the gate, and the closest qualifying one is returned
C23_Witness ==
    /\ SnapReturned /\ ret.result.isValid
    /\ ret.result.connectionType = "top"
    /\ \E a, b \in {cand \in SnapCandidates(call) : Qualifies(call, cand)} :
          HorizontalSq(call, a.position) > HorizontalSq(call, b.position)
    /\ \E cand \in SnapCandidates(call) :
          /\ ~Qualifies(call, cand)
          /\ HorizontalSq(call, cand.position) < HorizontalSq(call, ret.result.position)

\* C23 witness: bottom candidates at different distances qualify and the closest is
\* returned
C23_WitnessBottom ==
    /\ SnapReturned /\ ret.result.isValid
    /\ ret.result.connectionType = "bottom"
    /\ \E a, b \in {cand \in SnapCandidates(call) : Qualifies(call, cand)} :
          HorizontalSq(call, a.position) > HorizontalSq(call, b.position)

\* C23 witness: candidates within reach fail the gate, and none qualifies
C23_WitnessNone ==
    /\ SnapReturned /\ ~ret.result.isValid
    /\ SnapCandidates(call) # {}
    /\ \E cand \in SnapCandidates(call) :
          HorizontalSq(call, cand.position) < call.snapDistance * call.snapDistance

\* the new part as placed where findSnapPosition put it
SnappedBrick(c, r) ==
    [id |-> "new", definitionId |-> c.definitionId, position |-> r.position,
     rotation |-> Vec(0, c.rotationY, 0)]

\* C24: snap and connection detection agree: whenever findSnapPosition returns
\* isValid = true with connectedBrickId = E, a brick of that definition placed at the
\* returned position with that yaw is reported by ConnectionManager.findConnections
\* as having at least one connection candidate with E, for top and bottom snaps.
C24_SnapImpliesConnectionCandidate ==
    (SnapReturned /\ ret.result.isValid)
       => \E cand \in Range(findConnections(SnappedBrick(call, ret.result),
                                            call.existingBricks, CONNECT_TOLERANCE)) :
             cand.brick2Id = ret.result.connectedBrickId

-----------------------------------------------------------------------------
(* SpecHistory: the operations of useSceneStore in any order, from the constructed *)
(* store, from a store with two bricks added and one selected, and from a store    *)
(* cleared so often that the next entry fills the history.  The call remembers the *)
(* brick map and the cursor before the operation, and the operations before it.    *)

\* at most MaxHistoryOps operations are called
MaxHistoryOps == 3

\* the store after clearScene was called n times on the constructed store
\* (each call empties the maps and pushes one entry; n <= maxHistorySize)
ClearedTimes(n) ==
    SceneState(<<>>, <<>>, <<>>, [k \in 1..n |-> [bricks |-> <<>>, connections |-> <<>>]], n - 1)

\* where the k-th brick is added
HistoryPosition(k) == Vec(2 * STUD_SPACING * 10 * k, 0, 0)

\* the store after addBrick, addBrick and selectBrick of the first brick
TwoBricksOneSelected ==
    selectBrick(addBrick(addBrick(SceneConstructed, "a", "brick_2x4", HistoryPosition(0),
                                  selectedColorId, Vec(0, 0, 0)),
                         "b", "brick_1x2", HistoryPosition(1), selectedColorId,
                         Vec(0, 0, 0)),
                "a", FALSE)

HistoryInits == {SceneConstructed, TwoBricksOneSelected, ClearedTimes(maxHistorySize - 1)}

InitHistory ==
    /\ call = [fn |-> "none", n |-> 0, before |-> <<>>, beforeIndex |-> -1,
               prevFn |-> "none", prevBefore |-> <<>>, prevBeforeIndex |-> -1,
               prev2Fn |-> "none"]
    /\ ret = [done |-> FALSE]
    /\ CMIdle
    /\ ghostRotationY = 0 /\ ghostRotationYRef = 0
    /\ meshPosition = Vec(0, 0, 0) /\ hasCollision = FALSE
    /\ NotSceneIdle
    /\ \E st \in HistoryInits :
         /\ bricks = st.bricks
         /\ sceneConnections = st.connections
         /\ selectedBrickIds = st.selectedBrickIds
         /\ history = st.history
         /\ historyIndex = st.historyIndex

\* the operation fn is called and leaves the store st
HistoryStep(fn, st) ==
    /\ call.n < MaxHistoryOps
    /\ call' = [fn |-> fn, n |-> call.n + 1, before |-> bricks,
                beforeIndex |-> historyIndex, prevFn |-> call.fn,
                prevBefore |-> call.before, prevBeforeIndex |-> call.beforeIndex,
                prev2Fn |-> call.prevFn]
    /\ ret' = [done |-> TRUE]
    /\ SceneBecomes(st)
    /\ UNCHANGED <<cmVars, notSceneVars>>

\* the ids of the bricks
BrickIdsNow == {bricks[i].id : i \in DOMAIN bricks}

HistAddBrick ==
    \E id \in FreshIds(SceneNow) :
       HistoryStep("addBrick", addBrick(SceneNow, id, "brick_2x4", HistoryPosition(Len(bricks)),
                                        selectedColorId, Vec(0, 0, 0)))

HistRemoveBrick == \E id \in BrickIdsNow : HistoryStep("removeBrick", removeBrick(SceneNow, id))

HistMoveBrick ==
    \E id \in BrickIdsNow :
       HistoryStep("moveBrick", moveBrick(SceneNow, id, Vec(0, 3 * PLATE_HEIGHT, STUD_SPACING)))

HistRotateBrick ==
    \E id \in BrickIdsNow :
       HistoryStep("rotateBrick", rotateBrick(SceneNow, id, Vec(0, QUARTER_TURN, 0)))

HistSetBrickColor ==
    \E id \in BrickIdsNow \cup {"none"} :
       HistoryStep("setBrickColor", setBrickColor(SceneNow, id, 1))

HistSelectBrick ==
    \E id \in BrickIdsNow, additive \in BOOLEAN :
       HistoryStep("selectBrick", selectBrick(SceneNow, id, additive))

HistDeselectBrick ==
    \E id \in BrickIdsNow : HistoryStep("deselectBrick", deselectBrick(SceneNow, id))

HistClearSelection == HistoryStep("clearSelection", clearSelection(SceneNow))

HistSelectAll == HistoryStep("selectAll", selectAll(SceneNow))

HistUndo == HistoryStep("undo", undo(SceneNow))

HistRedo == HistoryStep("redo", redo(SceneNow))

HistImportScene ==
    \E data \in {SubSeq(ImportedRecords, 1, 2)} :
       HistoryStep("importScene", importScene(SceneNow, data))

HistClearScene == HistoryStep("clearScene", clearScene(SceneNow))

NextHistory ==
    \/ HistAddBrick
    \/ HistRemoveBrick
    \/ HistMoveBrick
    \/ HistRotateBrick
    \/ HistSetBrickColor
    \/ HistSelectBrick
    \/ HistDeselectBrick
    \/ HistClearSelection
    \/ HistSelectAll
    \/ HistUndo
    \/ HistRedo
    \/ HistImportScene
    \/ HistClearScene

SpecHistory == InitHistory /\ [][NextHistory]_vars

\* C25: from any reachable scene state, the initial empty scene included, addBrick
\* followed immediately by undo restores the brick map to exactly what it was before
\* the addBrick.
C25_UndoAfterAddRestores ==
    (call.fn = "undo" /\ call.prevFn = "addBrick") => bricks = call.prevBefore

\* C26: in every reachable scene state selectedBrickIds contains no duplicates and is
\* exactly the set of ids of the bricks of the brick map whose isSelected flag is true.
C26_SelectionMatchesFlags ==
  ({call.fn, call.prevFn, call.prev2Fn} \cap {"moveBrick", "rotateBrick"} = {} /\ call.n <= 3) =>
    /\ \A j, k \in DOMAIN selectedBrickIds :
          selectedBrickIds[j] = selectedBrickIds[k] => j = k
    /\ SelectedSet(selectedBrickIds) = {bricks[i].id : i \in {k \in DOMAIN bricks : bricks[k].isSelected}}

\* the ids, definitions, positions, rotations and colors of the bricks of a map
Placement(brickMap) ==
    [i \in DOMAIN brickMap |->
        [id |-> brickMap[i].id, definitionId |-> brickMap[i].definitionId,
         position |-> brickMap[i].position, rotation |-> brickMap[i].rotation,
         colorId |-> brickMap[i].colorId]]

\* C27: after any sequence of scene operations, an undo that changes historyIndex
\* followed immediately by redo restores the brick map (ids, definitions, positions,
\* rotations, colors) and historyIndex to what they were just before the undo.
C27_RedoAfterUndoRestores ==
    (call.fn = "redo" /\ call.prevFn = "undo" /\ call.beforeIndex # call.prevBeforeIndex)
       => /\ Placement(bricks) = Placement(call.prevBefore)
          /\ historyIndex = call.prevBeforeIndex

\* the operations that record history
RecordingOps == {"addBrick", "removeBrick", "setBrickColor", "clearScene"}

\* C28: in every reachable scene state the history is bounded and the cursor is in
\* range: history.length <= maxHistorySize and -1 <= historyIndex <= history.length
\* - 1, with historyIndex = -1 only when the history is empty; undo and redo never
\* move historyIndex out of this range and are no-ops at the ends.
C28_HistoryBoundedCursorInRange ==
    /\ Len(history) <= maxHistorySize
    /\ -1 <= historyIndex /\ historyIndex <= Len(history) - 1
    /\ historyIndex = -1 => history = <<>>
    /\ (call.fn = "undo" /\ call.beforeIndex <= 0)
          => historyIndex = call.beforeIndex /\ bricks = call.before
    /\ (call.fn = "redo" /\ call.beforeIndex = Len(history) - 1)
          => historyIndex = call.beforeIndex /\ bricks = call.before
    /\ (call.fn = "undo" /\ call.beforeIndex > 0) => historyIndex = call.beforeIndex - 1
    /\ (call.fn = "redo" /\ call.beforeIndex < Len(history) - 1)
          => historyIndex = call.beforeIndex + 1

\* C28 witness: the history is full, an operation pushed one more entry and the oldest
\* one was shifted out; then undo moved the cursor
C28_Witness ==
    /\ Len(history) = maxHistorySize
    /\ call.fn = "undo" /\ call.prevFn = "addBrick"
    /\ call.prevBeforeIndex = maxHistorySize - 1
    /\ historyIndex = maxHistorySize - 2
    /\ history[maxHistorySize].bricks # <<>>

\* C28 witness: undo on the store as constructed and redo at the end are no-ops
C28_WitnessEnds ==
    /\ call.fn = "redo" /\ call.prevFn = "undo"
    /\ history = <<>> /\ historyIndex = -1

\* C29: a history-recording mutation performed after one or more undos discards the
\* redo future: after undo followed by addBrick, removeBrick, setBrickColor or
\* clearScene, historyIndex equals history.length - 1, and redo is then a no-op that
\* leaves the brick map unchanged.
C29_MutationAfterUndoDiscardsFuture ==
    /\ (call.fn \in RecordingOps /\ call.prevFn = "undo")
          => historyIndex = Len(history) - 1
    /\ (call.fn = "redo" /\ call.prevFn \in RecordingOps /\ call.prev2Fn = "undo")
          => /\ bricks = call.before
             /\ historyIndex = call.beforeIndex
             /\ historyIndex = Len(history) - 1

\* C29 witness: undo moved the cursor back from an entry with two bricks, a brick was
\* removed, and the redo that followed left the one brick
C29_Witness ==
    /\ call.fn = "redo" /\ call.prevFn = "removeBrick" /\ call.prev2Fn = "undo"
    /\ Len(call.prevBefore) = 1
    /\ bricks = <<>>
    /\ Len(history) = 2 /\ historyIndex = 1
    /\ \E e \in Members(TwoBricksOneSelected.history) : e \notin Members(history)


-----------------------------------------------------------------------------
(* SpecGroup: findConnectedGroup over loaded connection sets, duplicates included *)

\* the connections of the edges picked, followed by a second connection, under an id
\* of its own, for each edge of `twice`
LoadedWithDuplicates(picked, twice) ==
    LoadedConnections(picked)
        \o [n \in DOMAIN LoadedConnections(twice) |->
               [LoadedConnections(twice)[n]
                   EXCEPT !.id = Uuid(LoadedConnections(twice)[n].id.uuid + Len(AllEdges))]]

InitGroup ==
    /\ \E picked \in ConnectionSets :
          \E twice \in {q \in SUBSET picked : Cardinality(q) <= 1} :
              call = [fn |-> "loadConnections", loaded |-> LoadedWithDuplicates(picked, twice)]
    /\ ret = [done |-> FALSE]
    /\ parts = <<>>
    /\ connections = <<>>
    /\ uuidCount = 0
    /\ pc = "idle"
    /\ PlaceIdle
    /\ StoreIdle

GroupLoadConnections ==
    /\ connections' = loadConnections(<<>>, call.loaded)
    /\ ret' = [done |-> FALSE]
    /\ UNCHANGED <<call, parts, uuidCount, pc>>

GroupCallFindConnectedGroup ==
    /\ \E i \in DOMAIN BrickIds :
          ret' = [done |-> TRUE, fn |-> "findConnectedGroup", brickId |-> BrickIds[i],
                  result |-> findConnectedGroup(connections, BrickIds[i])]
    /\ UNCHANGED <<call, cmVars>>

NextGroup ==
    \/ GroupLoadConnections /\ UNCHANGED <<placeVars, storeVars>>
    \/ GroupCallFindConnectedGroup /\ UNCHANGED <<placeVars, storeVars>>

SpecGroup == InitGroup /\ [][NextGroup]_vars

\* the ids one connection away from the ids of a set
OneStep(ids) == {y \in Range(BrickIds) : \E x \in ids : Joined(x, y)}

\* C30: for every stored connection set, sets with cycles and duplicate connections
\* included, findConnectedGroup(start) returns a set that contains start and is
\* exactly the set of ids reachable from start over connections, and membership is
\* symmetric: b is in findConnectedGroup(a) if and only if a is in
\* findConnectedGroup(b).
C30_GroupIsReachableSetAndSymmetric ==
    (ret.done /\ ret.fn = "findConnectedGroup") =>
        /\ ret.brickId \in ret.result
        /\ OneStep(ret.result) \subseteq ret.result
        /\ \A smaller \in SUBSET ret.result :
              (ret.brickId \in smaller /\ OneStep(smaller) \subseteq smaller)
                 => smaller = ret.result
        /\ \A b \in Range(BrickIds) :
              b \in ret.result <=> ret.brickId \in findConnectedGroup(connections, b)

\* C30 witness: a cycle through three bricks with one of its connections stored
\* twice, searched from a brick that no connection starts at
C30_Witness ==
    /\ ret.done /\ ret.fn = "findConnectedGroup"
    /\ Cardinality(ret.result) = 3
    /\ \A x, y \in ret.result : x # y => Joined(x, y)
    /\ \E i, j \in DOMAIN connections :
          /\ i # j
          /\ connections[i].brick1Id = connections[j].brick1Id
          /\ connections[i].brick2Id = connections[j].brick2Id
    /\ \A i \in DOMAIN connections : connections[i].brick1Id # ret.brickId

\* C30 witness: a brick without connections is a group of its own, and a brick
\* connected to itself is too
C30_WitnessAlone ==
    /\ ret.done /\ ret.fn = "findConnectedGroup"
    /\ ret.result = {ret.brickId}
    /\ Joined(ret.brickId, ret.brickId)

====
